---- MODULE Spec2Model ----
(***************************************************************************)
(* A model of vs/workbench/services/themes/electron-browser/themeService.ts *)
(* (ThemeService): registration of contributed color themes and file-icon  *)
(* sets, their activation (setColorTheme, setFileIcons), the document      *)
(* loaders and the stylesheet compilers.                                   *)
(*                                                                         *)
(* Text is modelled at the level of lexemes: a CSS class list such as a    *)
(* theme id is the sequence of its space-separated tokens, a path is a     *)
(* directory (sequence of segments), a stem and an extension.              *)
(* The empty sequence << >> stands for a falsy id (undefined, null, '').   *)
(***************************************************************************)
EXTENDS Integers, Sequences, FiniteSets, TLC

(***************************************************************************)
(* Bounds of the model.                                                    *)
(***************************************************************************)
\* total number of activation requests (setColorTheme, setFileIcons) issued
MaxCalls == 2

(***************************************************************************)
(* Program constants.                                                      *)
(***************************************************************************)
defaultThemeExtensionId == "vscode-theme-defaults"
oldDefaultThemeExtensionId == "vscode-theme-colorful-defaults"

DEFAULT_THEME_ID == <<"vs-dark", "vscode-theme-defaults-themes-dark_plus-json">>
DEFAULT_FILE_ICONS == "vs-standard"

THEME_CHANNEL == "vscode:changeTheme"

colorThemeRulesClassName == "contributedColorTheme"
fileIconRulesClassName == "contributedFileIcons"

\* getBaseThemeId / getSyntaxThemeId (vs/platform/theme/common/themes): the two
\* sub-identifiers encoded in a theme id, '<base> <syntax>'.
getBaseThemeId(themeId) == IF Len(themeId) >= 1 THEN themeId[1] ELSE ""
getSyntaxThemeId(themeId) == IF Len(themeId) >= 2 THEN themeId[2] ELSE ""

defaultBaseTheme == getBaseThemeId(DEFAULT_THEME_ID)

\* the values JavaScript distinguishes for the icon-set setting
Null == "<null>"
Undefined == "<undefined>"
Falsy(v) == v \in {Null, Undefined, ""}

\* a contribution's styleSheetContent: absent until first compiled
NoStyleSheet == [defined |-> FALSE, text |-> << >>]
StyleSheet(rules) == [defined |-> TRUE, text |-> rules]
\* a test that finds no stylesheet content truthy: the cache is never reused
Truthy_Never(content) == FALSE

\* JavaScript truthiness of styleSheetContent: undefined and '' are falsy
Truthy(content) == content.defined /\ content.text # << >>

(***************************************************************************)
(* validateThemeId: migration of legacy ids.                               *)
(***************************************************************************)
validateThemeId(theme) ==
    CASE theme = <<"vs">> ->
            <<"vs", defaultThemeExtensionId \o "-themes-light_vs-json">>
      [] theme = <<"vs-dark">> ->
            <<"vs-dark", defaultThemeExtensionId \o "-themes-dark_vs-json">>
      [] theme = <<"hc-black">> ->
            <<"hc-black", defaultThemeExtensionId \o "-themes-hc_black-json">>
      [] theme = <<"vs", oldDefaultThemeExtensionId \o "-themes-light_plus-tmTheme">> ->
            <<"vs", defaultThemeExtensionId \o "-themes-light_plus-json">>
      [] theme = <<"vs-dark", oldDefaultThemeExtensionId \o "-themes-dark_plus-tmTheme">> ->
            <<"vs-dark", defaultThemeExtensionId \o "-themes-dark_plus-json">>
      [] OTHER -> theme

(***************************************************************************)
(* Paths (vs/base/common/paths) on structured paths.                       *)
(* A path is [dir, stem, ext]: the directory segments, the file name       *)
(* without its extension, and the extension without the dot.               *)
(***************************************************************************)
Path(dir, stem, ext) == [dir |-> dir, stem |-> stem, ext |-> ext]
EmptyPath == Path(<< >>, "", "")

RECURSIVE NormalizeSegments(_, _)
\* '.' segments vanish, 'x/..' cancels
NormalizeSegments(segs, acc) ==
    IF segs = << >> THEN acc
    ELSE LET s == Head(segs) IN
         IF s = "." THEN NormalizeSegments(Tail(segs), acc)
         ELSE IF s = ".." /\ acc # << >> /\ acc[Len(acc)] # ".."
              THEN NormalizeSegments(Tail(segs), SubSeq(acc, 1, Len(acc) - 1))
              ELSE NormalizeSegments(Tail(segs), Append(acc, s))

Paths_normalize(p) == Path(NormalizeSegments(p.dir, << >>), p.stem, p.ext)
Paths_join(dir, p) == Path(NormalizeSegments(dir \o p.dir, << >>), p.stem, p.ext)
Paths_dirname(p) == p.dir
Paths_extname(p) == IF p.ext = "" THEN "" ELSE "." \o p.ext

\* is folder a prefix of the path (normalizedAbsolutePath.indexOf(folder) === 0)
StartsWithFolder(p, folder) ==
    /\ Len(p.dir) >= Len(folder)
    /\ SubSeq(p.dir, 1, Len(folder)) = folder

\* the text of a path as lexemes: segments separated by '/', then stem '.' ext
RECURSIVE DirLexemes(_)
DirLexemes(segs) ==
    IF segs = << >> THEN << >>
    ELSE <<Head(segs), "/">> \o DirLexemes(Tail(segs))

PathLexemes(p) ==
    DirLexemes(p.dir) \o <<p.stem>> \o (IF p.ext = "" THEN << >> ELSE <<".", p.ext>>)

(***************************************************************************)
(* toCSSSelector: every character outside [_-a-zA-Z0-9] becomes '-', and a *)
(* leading digit or dash gets a '_' prefix. Words of the model's paths and *)
(* extension ids consist of selector-safe characters; the separators are   *)
(* the unsafe lexemes.                                                     *)
(***************************************************************************)
UnsafeLexemes == {"/", ".", " ", ":", "\\"}
\* the words of the model that start with a digit or a dash
LeadingDigitOrDash == {"3rd-party", "-x"}

RECURSIVE JoinLexemes(_)
JoinLexemes(lex) ==
    IF lex = << >> THEN "" ELSE Head(lex) \o JoinLexemes(Tail(lex))

toCSSSelector(str) ==
    LET replaced == [i \in DOMAIN str |->
                        IF str[i] \in UnsafeLexemes THEN "-" ELSE str[i]]
    IN IF replaced # << >> /\ (replaced[1] \in LeadingDigitOrDash \/ replaced[1] = "-")
       THEN "_" \o JoinLexemes(replaced)
       ELSE JoinLexemes(replaced)

(***************************************************************************)
(* class Color. A color string is the sequence of its characters; an RGBA  *)
(* value keeps its alpha as a fraction num/den. NaN stands for parseInt's  *)
(* not-a-number.                                                           *)
(***************************************************************************)
NaN == -1

HexDigits == <<"0", "1", "2", "3", "4", "5", "6", "7", "8", "9",
               "a", "b", "c", "d", "e", "f">>
UpperHexDigits == <<"0", "1", "2", "3", "4", "5", "6", "7", "8", "9",
                    "A", "B", "C", "D", "E", "F">>
IsHex(ch) == \E i \in 1..16 : HexDigits[i] = ch \/ UpperHexDigits[i] = ch
HexValue(ch) == (CHOOSE i \in 1..16 : HexDigits[i] = ch \/ UpperHexDigits[i] = ch) - 1

\* color.substr(start, 2), start counted from 0
Substr2(color, start) ==
    SubSeq(color, start + 1, IF start + 2 <= Len(color) THEN start + 2 ELSE Len(color))

\* parseInt('0x' + str): the longest hexadecimal prefix, NaN when there is none
parseHex(str) ==
    IF str = << >> \/ ~IsHex(str[1]) THEN NaN
    ELSE IF Len(str) = 1 \/ ~IsHex(str[2]) THEN HexValue(str[1])
    ELSE 16 * HexValue(str[1]) + HexValue(str[2])

RGBA(r, g, b, num, den) == [r |-> r, g |-> g, b |-> b, num |-> num, den |-> den]

Color_parse(color) ==
    IF color # << >> /\ color[1] = "#" /\ Len(color) >= 7
    THEN IF Len(color) = 9
         THEN RGBA(parseHex(Substr2(color, 1)), parseHex(Substr2(color, 3)),
                   parseHex(Substr2(color, 5)), parseHex(Substr2(color, 7)), 255)
         ELSE RGBA(parseHex(Substr2(color, 1)), parseHex(Substr2(color, 3)),
                   parseHex(Substr2(color, 5)), 1, 1)
    ELSE RGBA(255, 0, 0, 1, 1)

\* alpha * factor, the factor given as fnum/fden
Color_transparent(p, fnum, fden) ==
    RGBA(p.r, p.g, p.b, IF p.num = NaN THEN NaN ELSE p.num * fnum, p.den * fden)

Color_opposite(p) ==
    RGBA(IF p.r = NaN THEN NaN ELSE 255 - p.r,
         IF p.g = NaN THEN NaN ELSE 255 - p.g,
         IF p.b = NaN THEN NaN ELSE 255 - p.b, p.num, p.den)

\* 'rgba(r, g, b, a)' with a = +alpha.toFixed(2), kept in hundredths
Color_toString(p) ==
    [fn |-> "rgba", r |-> p.r, g |-> p.g, b |-> p.b,
     a100 |-> IF p.num = NaN THEN NaN ELSE (200 * p.num + p.den) \div (2 * p.den)]

(***************************************************************************)
(* Theme documents.                                                        *)
(* A ThemeSettingStyle is the ordered list of its <<name, value>> members  *)
(* (JavaScript iterates the keys in insertion order), or absent. A scope   *)
(* is absent, a string (its lexemes: words, ',' and ' ') or an array of    *)
(* strings.                                                                *)
(***************************************************************************)
NoSettings == [defined |-> FALSE, attrs |-> << >>]
Settings(attrs) == [defined |-> TRUE, attrs |-> attrs]

NoScope == [type |-> "undefined", value |-> << >>]
ScopeString(lex) == [type |-> "string", value |-> lex]
ScopeArray(tokens) == [type |-> "array", value |-> tokens]
\* !s.scope : undefined and '' are falsy, any array is truthy
ScopeFalsy(scope) ==
    scope.type = "undefined" \/ (scope.type = "string" /\ scope.value = << >>)

ThemeSetting(scope, settings) == [scope |-> scope, settings |-> settings]

HasAttr(settings, name) ==
    settings.defined /\ \E i \in DOMAIN settings.attrs : settings.attrs[i][1] = name
Attr(settings, name) ==
    settings.attrs[CHOOSE i \in DOMAIN settings.attrs : settings.attrs[i][1] = name][2]
\* editorSettings.<name> is truthy: present and not ''
AttrTruthy(settings, name) == HasAttr(settings, name) /\ Attr(settings, name) # << >>

(***************************************************************************)
(* _settingsToStatements                                                   *)
(***************************************************************************)
\* the fontStyle declarations in a fixed order, whatever the order of the segments
FontStyleStatements_FixedOrder(segments) ==
    LET has(word) == \E i \in DOMAIN segments : segments[i] = word
    IN (IF has("italic") THEN <<[property |-> "font-style", value |-> "italic"]>> ELSE << >>)
       \o (IF has("bold") THEN <<[property |-> "font-weight", value |-> "bold"]>> ELSE << >>)
       \o (IF has("underline")
           THEN <<[property |-> "text-decoration", value |-> "underline"]>> ELSE << >>)

\* value.split(' ') of a fontStyle, segment by segment
RECURSIVE FontStyleStatements(_)
FontStyleStatements(segments) ==
    IF segments = << >> THEN << >>
    ELSE (CASE Head(segments) = "italic" -> <<[property |-> "font-style", value |-> "italic"]>>
            [] Head(segments) = "bold" -> <<[property |-> "font-weight", value |-> "bold"]>>
            [] Head(segments) = "underline" ->
                   <<[property |-> "text-decoration", value |-> "underline"]>>
            [] OTHER -> << >>)
         \o FontStyleStatements(Tail(segments))

RECURSIVE SplitOn(_, _, _)
\* str.split(sep) on lexemes: the pieces between the separators
SplitOn(lex, sep, piece) ==
    IF lex = << >> THEN <<piece>>
    ELSE IF Head(lex) = sep
         THEN <<piece>> \o SplitOn(Tail(lex), sep, << >>)
         ELSE SplitOn(Tail(lex), sep, Append(piece, Head(lex)))

RECURSIVE StatementsOf(_)
StatementsOf(attrs) ==
    IF attrs = << >> THEN << >>
    ELSE LET settingName == Head(attrs)[1]
             value == Head(attrs)[2]
         IN (CASE settingName = "foreground" ->
                     <<[property |-> "color", value |-> Color_toString(Color_parse(value))]>>
               [] settingName = "background" -> << >>
               [] settingName = "fontStyle" ->
                     FontStyleStatements(
                         [i \in DOMAIN SplitOn(value, " ", << >>) |->
                             JoinLexemes(SplitOn(value, " ", << >>)[i])])
               [] OTHER -> << >>)
            \o StatementsOf(Tail(attrs))

_settingsToStatements(settings) == StatementsOf(settings.attrs)

(***************************************************************************)
(* _processThemeObject: the color-theme compiler. The stylesheet is the    *)
(* sequence of its rules (cssRules before the join); the empty sequence is *)
(* the empty string.                                                       *)
(***************************************************************************)
RECURSIVE TrimLeft(_)
TrimLeft(lex) == IF lex # << >> /\ Head(lex) = " " THEN TrimLeft(Tail(lex)) ELSE lex
RECURSIVE TrimRight(_)
TrimRight(lex) ==
    IF lex # << >> /\ lex[Len(lex)] = " " THEN TrimRight(SubSeq(lex, 1, Len(lex) - 1)) ELSE lex
Trim(lex) == TrimRight(TrimLeft(lex))

\* rule.trim().replace(/ /g, '.')
ScopeToken(rule) ==
    LET t == Trim(rule)
    IN JoinLexemes([i \in DOMAIN t |-> IF t[i] = " " THEN "." ELSE t[i]])

TokenRule(themeSelector, rule, statements) ==
    [template |-> "token.rule", theme |-> themeSelector, scope |-> rule, body |-> statements]
EditorRule(template, themeSelector, colors) ==
    [template |-> template, theme |-> themeSelector, scope |-> "", body |-> colors]

\* a string scope taken as a single token, commas included
ScopedRules_Unsplit(themeSelector, s) ==
    IF ~ScopeFalsy(s.scope) /\ s.settings.defined
    THEN LET rules == IF s.scope.type = "array" THEN s.scope.value ELSE <<s.scope.value>>
             statements == _settingsToStatements(s.settings)
         IN [i \in DOMAIN rules |-> TokenRule(themeSelector, ScopeToken(rules[i]), statements)]
    ELSE << >>

\* the rules of one entry that is not the editor-defaults record
ScopedRules(themeSelector, s) ==
    IF ~ScopeFalsy(s.scope) /\ s.settings.defined
    THEN LET rules == IF s.scope.type = "array" THEN s.scope.value
                      ELSE SplitOn(s.scope.value, ",", << >>)
             statements == _settingsToStatements(s.settings)
         IN [i \in DOMAIN rules |-> TokenRule(themeSelector, ScopeToken(rules[i]), statements)]
    ELSE << >>

RECURSIVE AllScopedRules(_, _, _)
AllScopedRules(themeSelector, themeSettings, index) ==
    IF index > Len(themeSettings) THEN << >>
    ELSE (IF index = 1 /\ ScopeFalsy(themeSettings[index].scope)
          THEN << >>
          ELSE ScopedRules(themeSelector, themeSettings[index]))
         \o AllScopedRules(themeSelector, themeSettings, index + 1)

EditorRules(themeSelector, editorSettings) ==
    LET col(name) == Color_parse(Attr(editorSettings, name))
        str(name) == Color_toString(col(name))
    IN (IF AttrTruthy(editorSettings, "background")
        THEN <<EditorRule("monaco-editor-background", themeSelector, <<str("background")>>),
               EditorRule("glyph-margin", themeSelector, <<str("background")>>),
               EditorRule("workbench monaco-editor-background", themeSelector,
                          <<str("background")>>)>>
        ELSE << >>)
       \o (IF AttrTruthy(editorSettings, "foreground")
           THEN <<EditorRule("token", themeSelector, <<str("foreground")>>)>>
           ELSE << >>)
       \o (IF AttrTruthy(editorSettings, "selection")
           THEN <<EditorRule("focused selected-text", themeSelector, <<str("selection")>>),
                  EditorRule("selected-text", themeSelector,
                      <<Color_toString(Color_transparent(col("selection"), 1, 2))>>)>>
           ELSE << >>)
       \o (IF AttrTruthy(editorSettings, "lineHighlight")
           THEN <<EditorRule("current-line", themeSelector, <<str("lineHighlight")>>)>>
           ELSE << >>)
       \o (IF AttrTruthy(editorSettings, "caret")
           THEN <<EditorRule("cursor", themeSelector,
                      <<str("caret"), str("caret"),
                        Color_toString(Color_opposite(col("caret")))>>)>>
           ELSE << >>)
       \o (IF AttrTruthy(editorSettings, "invisibles")
           THEN <<EditorRule("token.whitespace", themeSelector, <<str("invisibles")>>),
                  EditorRule("lines-content cigr", themeSelector, <<str("invisibles")>>)>>
           ELSE << >>)

\* _processThemeObject pushing the whole-editor rules before the scoped ones
_processThemeObject_EditorFirst(themeId, themeDocument) ==
    LET themeSettings == themeDocument.settings
        themeSelector == getBaseThemeId(themeId) \o "." \o getSyntaxThemeId(themeId)
        editorSettings == IF themeSettings # << >> /\ ScopeFalsy(themeSettings[1].scope)
                          THEN themeSettings[1].settings
                          ELSE Settings(<< >>)
    IN IF ~editorSettings.defined
       THEN [threw |-> TRUE, rules |-> << >>]
       ELSE [threw |-> FALSE,
             rules |-> EditorRules(themeSelector, editorSettings)
                       \o AllScopedRules(themeSelector, themeSettings, 1)]

\* [threw, rules]: threw when the editor-defaults record has no settings member
\* (editorSettings.background then reads a property of undefined)
_processThemeObject(themeId, themeDocument) ==
    LET themeSettings == themeDocument.settings
        themeSelector == getBaseThemeId(themeId) \o "." \o getSyntaxThemeId(themeId)
        editorSettings == IF themeSettings # << >> /\ ScopeFalsy(themeSettings[1].scope)
                          THEN themeSettings[1].settings
                          ELSE Settings(<< >>)
    IN IF ~editorSettings.defined
       THEN [threw |-> TRUE, rules |-> << >>]
       ELSE [threw |-> FALSE,
             rules |-> AllScopedRules(themeSelector, themeSettings, 1)
                       \o EditorRules(themeSelector, editorSettings)]

(***************************************************************************)
(* _processFileIconsObject: the file-icon compiler.                        *)
(* A FileIconsAssociation has folder, folderExpanded, file (a definition   *)
(* id or "") and the maps fileExtensions, fileNames, languageIds as        *)
(* ordered lists of <<key, definition id>>; keys are lexeme sequences.     *)
(***************************************************************************)
NoAssociation ==
    [defined |-> FALSE, folder |-> "", folderExpanded |-> "", file |-> "",
     fileExtensions |-> << >>, fileNames |-> << >>, languageIds |-> << >>]

\* String.prototype.toLowerCase on the words of the model
LowerCaseWords == [w \in {"Makefile", "JS", "README"} |->
                      CASE w = "Makefile" -> "makefile"
                        [] w = "JS" -> "js"
                        [] w = "README" -> "readme"]
toLowerCase(lex) ==
    [i \in DOMAIN lex |-> IF lex[i] \in DOMAIN LowerCaseWords THEN LowerCaseWords[lex[i]] ELSE lex[i]]

\* window.CSS.escape: characters that cannot stand in an identifier get a backslash
escapeCSS(lex) ==
    JoinLexemes([i \in DOMAIN lex |-> IF lex[i] \in UnsafeLexemes THEN "\\" \o lex[i] ELSE lex[i]])

\* Paths.extname of a file name: from its last '.', when that is not its first lexeme
LastDot(lex) ==
    IF \E i \in DOMAIN lex : lex[i] = "."
    THEN CHOOSE i \in DOMAIN lex : lex[i] = "." /\ \A j \in DOMAIN lex : lex[j] = "." => j <= i
    ELSE 0
NameExt(fileName) ==
    IF LastDot(fileName) > 1 THEN SubSeq(fileName, LastDot(fileName), Len(fileName)) ELSE << >>

IconSelector(baseThemeClassName, target) ==
    [qualifier |-> IF baseThemeClassName # ""
                   THEN <<baseThemeClassName, ".show-file-icons">>
                   ELSE <<".show-file-icons">>,
     target |-> target]

\* the addSelector calls of one collectSelectors pass, in call order
AssociationSelectors(associations, baseThemeClassName) ==
    IF ~associations.defined THEN << >>
    ELSE LET sel(target) == IconSelector(baseThemeClassName, target)
             exts == associations.fileExtensions
             names == associations.fileNames
             langs == associations.languageIds
         IN <<  <<sel(".folder-icon"), associations.folder>>,
                <<sel(".expanded .folder-icon"), associations.folderExpanded>>,
                <<sel(".file-icon"), associations.file>>  >>
            \o [i \in DOMAIN exts |->
                  <<sel("." \o escapeCSS(toLowerCase(exts[i][1])) \o "-ext-file-icon.file-icon"),
                    exts[i][2]>>]
            \o [i \in DOMAIN names |->
                  LET ext == toLowerCase(NameExt(names[i][1]))
                      name == toLowerCase(SubSeq(names[i][1], 1, Len(names[i][1]) - Len(ext)))
                  IN <<sel("." \o escapeCSS(name) \o "-name-file-icon." \o escapeCSS(ext)
                           \o "-ext-file-icon.file-icon"),
                       names[i][2]>>]
            \o [i \in DOMAIN langs |->
                  <<sel("." \o escapeCSS(langs[i][1]) \o "-lang-file-icon.file-icon"),
                    langs[i][2]>>]

\* addSelector starting a new list for every selector
addSelector_AlwaysNew(map, selector, defId) ==
    IF defId = "" THEN map
    ELSE Append(map, [defId |-> defId, selectors |-> <<selector>>])

\* addSelector: selectorByDefinitionId as an insertion-ordered list of [defId, selectors]
addSelector(map, selector, defId) ==
    IF defId = "" THEN map
    ELSE IF \E i \in DOMAIN map : map[i].defId = defId
         THEN [i \in DOMAIN map |->
                  IF map[i].defId = defId
                  THEN [map[i] EXCEPT !.selectors = Append(@, selector)]
                  ELSE map[i]]
         ELSE Append(map, [defId |-> defId, selectors |-> <<selector>>])

RECURSIVE collectSelectors(_, _)
collectSelectors(map, calls) ==
    IF calls = << >> THEN map
    ELSE collectSelectors(addSelector(map, Head(calls)[1], Head(calls)[2]), Tail(calls))

RECURSIVE IconRules(_, _, _)
IconRules(map, fileIconsPath, iconDefinitions) ==
    IF map = << >> THEN << >>
    ELSE LET defId == Head(map).defId
             has == \E i \in DOMAIN iconDefinitions : iconDefinitions[i][1] = defId
             iconPath == iconDefinitions[CHOOSE i \in DOMAIN iconDefinitions :
                                             iconDefinitions[i][1] = defId][2]
         IN (IF has /\ iconPath # EmptyPath
             THEN <<[selectors |-> Head(map).selectors,
                     image |-> Paths_join(Paths_dirname(fileIconsPath), iconPath)]>>
             ELSE << >>)
            \o IconRules(Tail(map), fileIconsPath, iconDefinitions)

_processFileIconsObject(id, fileIconsPath, fileIconsDocument) ==
    IF ~fileIconsDocument.hasIconDefinitions THEN << >>
    ELSE LET selectorByDefinitionId ==
                 collectSelectors(<< >>,
                     AssociationSelectors(fileIconsDocument.base, "")
                     \o AssociationSelectors(fileIconsDocument.light, ".vs")
                     \o AssociationSelectors(fileIconsDocument.highContrast, ".hc_black"))
         IN IconRules(selectorByDefinitionId, fileIconsPath, fileIconsDocument.iconDefinitions)

(***************************************************************************)
(* The environment: the installed extensions with their contributions, and *)
(* the documents on disk.                                                  *)
(***************************************************************************)
ThemeEntry(uiTheme, pathType, path) ==
    [uiTheme |-> uiTheme, pathType |-> pathType, path |-> path]
IconEntry(id, idType, pathType, path) ==
    [id |-> id, idType |-> idType, pathType |-> pathType, path |-> path]
Extension(id, folder, isArray, value) ==
    [id |-> id, folder |-> folder, isArray |-> isArray, value |-> value]

\* what the 'themes' extension point delivers
ThemeExtensions == <<
    Extension("x", <<"ext", "x">>, TRUE,
        << ThemeEntry("vs", "string", Path(<<".">>, "a", "tmTheme")),
           ThemeEntry("", "undefined", EmptyPath),
           ThemeEntry("", "string", Path(<<".">>, "empty", "json")),
           ThemeEntry("hc-black", "string", Path(<<".">>, "bad", "json")) >>),
    Extension(defaultThemeExtensionId, <<"ext", "theme-defaults">>, TRUE,
        << ThemeEntry("vs-dark", "string", Path(<<".", "themes">>, "dark_plus", "json")),
           \* './themes-dark_plus.json' gets the selector, and so the id, of the entry before
           ThemeEntry("vs-dark", "string", Path(<<".">>, "themes-dark_plus", "json")) >>) >>

\* what the 'fileIcons' extension point delivers
FileIconExtensions == <<
    Extension("x", <<"ext", "x">>, TRUE,
        << IconEntry("x-icons", "string", "string", Path(<<".", "icons">>, "x", "json")),
           IconEntry("", "undefined", "string", Path(<<".", "icons">>, "y", "json")),
           IconEntry("x-nopath", "string", "undefined", EmptyPath),
           IconEntry("x-bad", "string", "string", Path(<<".", "icons">>, "bad", "json")) >>),
    Extension("vscode-icons", <<"ext", "icons">>, TRUE,
        << IconEntry(DEFAULT_FILE_ICONS, "string", "string", Path(<<".">>, "std", "json")),
           \* a second set contributed under the same id
           IconEntry(DEFAULT_FILE_ICONS, "string", "string", Path(<<".">>, "std2", "json")) >>) >>

\* the extensions ExtensionsRegistry.getExtensionDescription knows
DescribedExtensions == {defaultThemeExtensionId, "x", "vscode-icons"}

Hex(a, b, c, d, e, f) == <<"#", a, b, c, d, e, f>>

ThemeDocument(errors, include, settings) ==
    [errors |-> errors, include |-> include, settings |-> settings]

\* the theme documents on disk, by absolute path
ThemeFiles ==
    (Path(<<"ext", "theme-defaults", "themes">>, "dark_plus", "json") :>
        ThemeDocument(FALSE, Path(<<".">>, "dark_vs", "json"),
            << ThemeSetting(ScopeString(<<"keyword", ",", " ", "storage", " ", "type">>),
                   Settings(<< <<"foreground", Hex("5", "6", "9", "C", "D", "6")>> >>)) >>))
    @@ (Path(<<"ext", "theme-defaults", "themes">>, "dark_vs", "json") :>
        ThemeDocument(FALSE, EmptyPath,
            << ThemeSetting(NoScope,
                   Settings(<< <<"background", Hex("1", "E", "1", "E", "1", "E")>>,
                               <<"foreground", Hex("D", "4", "D", "4", "D", "4")>> >>)),
               ThemeSetting(ScopeArray(<< <<"comment">> >>),
                   Settings(<< <<"fontStyle", <<"italic">> >> >>)) >>))
    @@ (Path(<<"ext", "theme-defaults">>, "themes-dark_plus", "json") :>
        ThemeDocument(FALSE, EmptyPath,
            << ThemeSetting(ScopeString(<<"variable">>),
                   Settings(<< <<"fontStyle", <<"underline">> >> >>)) >>))
    @@ (Path(<<"ext", "x">>, "a", "tmTheme") :>
        ThemeDocument(FALSE, EmptyPath,
            << ThemeSetting(NoScope,
                   Settings(<< <<"caret", Hex("0", "0", "0", "0", "0", "0")>> >>)),
               ThemeSetting(ScopeString(<<"string">>),
                   Settings(<< <<"fontStyle", <<"bold", " ", "italic">> >>,
                               <<"background", Hex("f", "f", "f", "f", "f", "f")>> >>)) >>))
    @@ (Path(<<"ext", "x">>, "empty", "json") :> ThemeDocument(FALSE, EmptyPath, << >>))
    @@ (Path(<<"ext", "x">>, "bad", "json") :> ThemeDocument(TRUE, EmptyPath, << >>))

FileIconsDocument(errors, hasIconDefinitions, iconDefinitions, base, light, highContrast) ==
    [errors |-> errors, hasIconDefinitions |-> hasIconDefinitions,
     iconDefinitions |-> iconDefinitions, base |-> base, light |-> light,
     highContrast |-> highContrast]
Association(folder, folderExpanded, file, fileExtensions, fileNames, languageIds) ==
    [defined |-> TRUE, folder |-> folder, folderExpanded |-> folderExpanded, file |-> file,
     fileExtensions |-> fileExtensions, fileNames |-> fileNames, languageIds |-> languageIds]

\* the icon-set documents on disk, by absolute path
FileIconFiles ==
    (Path(<<"ext", "icons">>, "std", "json") :>
        FileIconsDocument(FALSE, TRUE,
            << <<"_folder", Path(<<".", "img">>, "folder", "svg")>>,
               <<"_file", Path(<<".", "img">>, "file", "svg")>> >>,
            Association("_folder", "", "_file", << >>, << >>, << >>),
            NoAssociation, NoAssociation))
    @@ (Path(<<"ext", "icons">>, "std2", "json") :>
        FileIconsDocument(FALSE, TRUE,
            << <<"_file", Path(<<".", "img2">>, "file", "svg")>> >>,
            Association("", "", "_file", << >>, << >>, << >>),
            NoAssociation, NoAssociation))
    @@ (Path(<<"ext", "x", "icons">>, "x", "json") :>
        FileIconsDocument(FALSE, TRUE,
            << <<"_js", Path(<<".">>, "js", "png")>>, <<"_none", EmptyPath>> >>,
            Association("", "", "_none", << <<<<"JS">>, "_js">> >>,
                        << <<<<"Makefile">>, "_js">> >>, << >>),
            Association("", "", "_js", << >>, << >>, << >>),
            NoAssociation))
    @@ (Path(<<"ext", "x", "icons">>, "bad", "json") :>
        FileIconsDocument(TRUE, FALSE, << >>, NoAssociation, NoAssociation, NoAssociation))

(***************************************************************************)
(* The state of a window's ThemeService and of its collaborators.          *)
(***************************************************************************)
VARIABLES
    knownThemes,                 \* this.knownThemes: contributions, styleSheetContent included
    knownFileIconContributions,  \* this.knownFileIconContributions
    currentTheme,                \* this.currentTheme, << >> while undefined
    currentFileIcons,            \* this.currentFileIcons
    container,                   \* this.container is set
    rootClasses,                 \* the class tokens of the container element
    themeExtensionsActivated,    \* this.themeExtensionsActivated
    ready,                       \* extensionService.onReady() has resolved
    handled,                     \* the extension-point deliveries handled so far
    collector,                   \* the messages given to the extensions' collectors
    storage,                     \* storageService: the value of THEME_PREF, << >> if none
    head,                        \* document.head: the style elements, in document order
    telemetry,                   \* the 'activatePlugin' events logged so far
    calls,                       \* the activation requests in flight, oldest first
    nCalls,                      \* the number of activation requests made so far
    out,                         \* what the last step did: see NoEvents
    themeFiles,                  \* the theme documents on disk, by absolute path
    probe                        \* the last application of a pure function: see NoProbe

vars == <<knownThemes, knownFileIconContributions, currentTheme, currentFileIcons, container,
          rootClasses, themeExtensionsActivated, ready, handled, collector, storage, head,
          telemetry, calls, nCalls, out, themeFiles, probe>>

\* the observable events of one step: the requests settled (with their results), the
\* contributions looked up, the documents read and compiled, the messages broadcast,
\* the ids fired on onColorThemeChange (and, in atFire, what a subscriber finds when
\* it is called), the telemetry events logged, the settings of the theme documents
\* that _loadThemeDocument resolved with, the theme changes received from other windows
NoEvents ==
    [settled |-> << >>, found |-> << >>, reads |-> << >>, compiled |-> << >>,
     broadcast |-> << >>, fired |-> << >>, atFire |-> << >>, logged |-> << >>,
     loaded |-> << >>, received |-> << >>]

\* what a subscriber of onColorThemeChange can observe while it is being called
Observed(st) ==
    [head |-> st.head, storage |-> st.storage, currentTheme |-> st.currentTheme,
     rootClasses |-> st.rootClasses]

\* a pure function of the program applied on its own: its name, argument and result
Probe(fn, input, output) == [fn |-> fn, input |-> input, output |-> output]
NoProbe == Probe("none", << >>, << >>)

\* the state as one record, so that a handler's statements compose in program order;
\* every step starts with no events
Here ==
    [knownThemes |-> knownThemes, knownFileIconContributions |-> knownFileIconContributions,
     currentTheme |-> currentTheme, currentFileIcons |-> currentFileIcons,
     container |-> container, rootClasses |-> rootClasses,
     themeExtensionsActivated |-> themeExtensionsActivated, ready |-> ready,
     handled |-> handled, collector |-> collector, storage |-> storage, head |-> head,
     telemetry |-> telemetry, calls |-> calls,
     nCalls |-> nCalls, out |-> NoEvents, themeFiles |-> themeFiles]

Commit(st) ==
    /\ knownThemes' = st.knownThemes
    /\ knownFileIconContributions' = st.knownFileIconContributions
    /\ currentTheme' = st.currentTheme
    /\ currentFileIcons' = st.currentFileIcons
    /\ container' = st.container
    /\ rootClasses' = st.rootClasses
    /\ themeExtensionsActivated' = st.themeExtensionsActivated
    /\ ready' = st.ready
    /\ handled' = st.handled
    /\ collector' = st.collector
    /\ storage' = st.storage
    /\ head' = st.head
    /\ telemetry' = st.telemetry
    /\ calls' = st.calls
    /\ nCalls' = st.nCalls
    /\ out' = st.out
    /\ themeFiles' = st.themeFiles
    /\ probe' = probe

Init ==
    /\ knownThemes = << >>
    /\ knownFileIconContributions = << >>
    /\ currentTheme = << >>
    /\ currentFileIcons = Null
    /\ container = FALSE
    /\ rootClasses = {}
    /\ themeExtensionsActivated = {}
    /\ ready = FALSE
    /\ handled = {}
    /\ collector = << >>
    /\ storage = << >>
    /\ head = << >>
    /\ telemetry = << >>
    /\ calls = << >>
    /\ nCalls = 0
    /\ out = NoEvents
    /\ themeFiles = ThemeFiles
    /\ probe = NoProbe

\* the class tokens of an id: $(container).addClass(id) splits the id on spaces
Tokens(id) == {id[i] : i \in DOMAIN id}

Contribution(id, path, extensionId) ==
    [id |-> id, path |-> path, extensionId |-> extensionId, styleSheetContent |-> NoStyleSheet]

\* one activation request and where its promise chain stands. before is the active
\* id when the request was made; overtakenBy tells whether another request of the
\* same kind has applied its stylesheet since ("older", "younger": made before or
\* after this one)
Call(kind, requested, themeId, broadcast, before) ==
    [kind |-> kind, requested |-> requested, themeId |-> themeId,
     broadcast |-> broadcast, before |-> before, overtakenBy |-> "none", pc |-> "find",
     data |-> 0, path |-> EmptyPath, docs |-> << >>, nReads |-> 0]

RemoveAt(seq, c) == SubSeq(seq, 1, c - 1) \o SubSeq(seq, c + 1, Len(seq))

\* the promise of request c completes: with true, false, or rejected
Settle(st, c, result) ==
    [st EXCEPT !.calls = RemoveAt(@, c),
               !.out.settled = Append(@, [call |-> [st.calls[c] EXCEPT !.pc = "done",
                                                                        !.path = EmptyPath,
                                                                        !.docs = << >>],
                                          result |-> result])]

\* request c has applied its stylesheet: the other requests of its kind in flight
\* have been overtaken
Overtake(st, c) ==
    [st EXCEPT !.calls = [d \in DOMAIN @ |->
                            IF d # c /\ @[d].kind = @[c].kind
                            THEN [@[d] EXCEPT !.overtakenBy =
                                                  IF c > d THEN "younger" ELSE "older"]
                            ELSE @[d]]]

(***************************************************************************)
(* onThemes, onFileIcons: ingestion of an extension's contributed array.   *)
(***************************************************************************)
Message(severity, key, extensionId) ==
    [severity |-> severity, key |-> key, extensionId |-> extensionId]

\* !entry.path || typeof entry.path !== 'string'
PathInvalid(entry) == entry.pathType # "string" \/ entry.path = EmptyPath
\* !entry.id || typeof entry.id !== 'string'
IdInvalid(entry) == entry.idType # "string" \/ entry.id = ""

\* the body of themes.forEach for one entry
onThemesEntry(st, ext, theme) ==
    IF PathInvalid(theme)
    THEN [st EXCEPT !.collector = Append(@, Message("error", "reqpath", ext.id))]
    ELSE LET normalizedAbsolutePath == Paths_normalize(Paths_join(ext.folder, theme.path))
             warned == IF ~StartsWithFolder(normalizedAbsolutePath, ext.folder)
                       THEN Append(st.collector, Message("warn", "invalid.path.1", ext.id))
                       ELSE st.collector
             themeSelector ==
                 toCSSSelector(<<ext.id, "-">> \o PathLexemes(Paths_normalize(theme.path)))
         IN [st EXCEPT
                !.collector = warned,
                !.knownThemes = Append(@,
                    Contribution(<<IF theme.uiTheme # "" THEN theme.uiTheme ELSE defaultBaseTheme,
                                   themeSelector>>,
                                 normalizedAbsolutePath, ext.id))]

\* themes.forEach giving up the whole array at its first invalid entry
RECURSIVE onThemesFrom_StoppingAtInvalid(_, _, _)
onThemesFrom_StoppingAtInvalid(st, ext, i) ==
    IF i > Len(ext.value) THEN st
    ELSE IF PathInvalid(ext.value[i]) THEN onThemesEntry(st, ext, ext.value[i])
    ELSE onThemesFrom_StoppingAtInvalid(onThemesEntry(st, ext, ext.value[i]), ext, i + 1)

RECURSIVE onThemesFrom(_, _, _)
onThemesFrom(st, ext, i) ==
    IF i > Len(ext.value) THEN st
    ELSE onThemesFrom(onThemesEntry(st, ext, ext.value[i]), ext, i + 1)

onThemes(st, ext) ==
    IF ~ext.isArray
    THEN [st EXCEPT !.collector = Append(@, Message("error", "reqarray", ext.id))]
    ELSE onThemesFrom(st, ext, 1)

\* the body of fileIcons.forEach for one entry
onFileIconsEntry(st, ext, fileIconSet) ==
    IF PathInvalid(fileIconSet)
    THEN [st EXCEPT !.collector = Append(@, Message("error", "reqpath", ext.id))]
    ELSE IF IdInvalid(fileIconSet)
    THEN [st EXCEPT !.collector = Append(@, Message("error", "reqid", ext.id))]
    ELSE LET normalizedAbsolutePath == Paths_normalize(Paths_join(ext.folder, fileIconSet.path))
             warned == IF ~StartsWithFolder(normalizedAbsolutePath, ext.folder)
                       THEN Append(st.collector, Message("warn", "invalid.path.1", ext.id))
                       ELSE st.collector
         IN [st EXCEPT
                !.collector = warned,
                !.knownFileIconContributions = Append(@,
                    Contribution(fileIconSet.id, normalizedAbsolutePath, ext.id))]

RECURSIVE onFileIconsFrom(_, _, _)
onFileIconsFrom(st, ext, i) ==
    IF i > Len(ext.value) THEN st
    ELSE onFileIconsFrom(onFileIconsEntry(st, ext, ext.value[i]), ext, i + 1)

onFileIcons(st, ext) ==
    IF ~ext.isArray
    THEN [st EXCEPT !.collector = Append(@, Message("error", "reqarray", ext.id))]
    ELSE onFileIconsFrom(st, ext, 1)

(***************************************************************************)
(* Activation of a color theme.                                            *)
(***************************************************************************)
Min(S) == CHOOSE x \in S : \A y \in S : x <= y
Max(S) == CHOOSE x \in S : \A y \in S : y <= x

\* _applyRules layering a new style element on every apply instead of overwriting
_applyRules_Layered(styleElements, styleSheetContent, rulesClassName) ==
    Append(styleElements, [className |-> rulesClassName, innerHTML |-> styleSheetContent])

\* _applyRules: create the style element of the class, or overwrite the first one
_applyRules(styleElements, styleSheetContent, rulesClassName) ==
    LET themeStyles == {i \in DOMAIN styleElements :
                            styleElements[i].className = rulesClassName}
    IN IF themeStyles = {}
       THEN Append(styleElements,
                   [className |-> rulesClassName, innerHTML |-> styleSheetContent])
       ELSE [styleElements EXCEPT ![Min(themeStyles)].innerHTML = styleSheetContent]

\* sendTelemetry forgetting to record the extension it has reported
sendTelemetry_Forgetful(st, themeData) ==
    IF themeData.extensionId \notin st.themeExtensionsActivated
    THEN IF themeData.extensionId \in DescribedExtensions
         THEN LET event == [id |-> themeData.extensionId, themeId |-> themeData.id]
              IN [st EXCEPT !.telemetry = Append(@, event),
                            !.out.logged = Append(@, event)]
         ELSE st
    ELSE st

sendTelemetry(st, themeData) ==
    IF themeData.extensionId \notin st.themeExtensionsActivated
    THEN IF themeData.extensionId \in DescribedExtensions
         THEN LET event == [id |-> themeData.extensionId, themeId |-> themeData.id]
              IN [st EXCEPT
                     !.telemetry = Append(@, event),
                     !.out.logged = Append(@, event),
                     !.themeExtensionsActivated = @ \cup {themeData.extensionId}]
         ELSE st
    ELSE st

\* onApply that does not persist the new id
onApply_NotPersisting(st, newTheme, broadcastToAllWindows) ==
    LET newThemeId == newTheme.id
        st1 == IF st.container
               THEN [st EXCEPT
                        !.rootClasses = (@ \ Tokens(st.currentTheme)) \cup Tokens(newThemeId),
                        !.currentTheme = newThemeId]
               ELSE st
        st3 == IF broadcastToAllWindows
               THEN [st1 EXCEPT !.out.broadcast = Append(@, newThemeId)]
               ELSE sendTelemetry(st1, newTheme)
    IN [st3 EXCEPT !.out.fired = Append(@, newThemeId)]

\* onApply adding the new theme's class without removing the old one
onApply_KeepingOldClass(st, newTheme, broadcastToAllWindows) ==
    LET newThemeId == newTheme.id
        st1 == IF st.container
               THEN [st EXCEPT !.rootClasses = @ \cup Tokens(newThemeId),
                               !.currentTheme = newThemeId]
               ELSE st
        st2 == [st1 EXCEPT !.storage = newThemeId]
        st3 == IF broadcastToAllWindows
               THEN [st2 EXCEPT !.out.broadcast = Append(@, newThemeId)]
               ELSE sendTelemetry(st2, newTheme)
    IN [st3 EXCEPT !.out.fired = Append(@, newThemeId),
                   !.out.atFire = Append(@, Observed(st3))]

\* onApply notifying the subscribers first, before it switches the class and persists
onApply_FiringFirst(st, newTheme, broadcastToAllWindows) ==
    LET newThemeId == newTheme.id
        st0 == [st EXCEPT !.out.fired = Append(@, newThemeId),
                          !.out.atFire = Append(@, Observed(st))]
        st1 == IF st0.container
               THEN [st0 EXCEPT
                        !.rootClasses = (@ \ Tokens(st0.currentTheme)) \cup Tokens(newThemeId),
                        !.currentTheme = newThemeId]
               ELSE st0
        st2 == [st1 EXCEPT !.storage = newThemeId]
    IN IF broadcastToAllWindows
       THEN [st2 EXCEPT !.out.broadcast = Append(@, newThemeId)]
       ELSE sendTelemetry(st2, newTheme)

\* the onApply closure of setColorTheme
onApply(st, newTheme, broadcastToAllWindows) ==
    LET newThemeId == newTheme.id
        st1 == IF st.container
               THEN [st EXCEPT
                        !.rootClasses = (@ \ Tokens(st.currentTheme)) \cup Tokens(newThemeId),
                        !.currentTheme = newThemeId]
               ELSE st
        st2 == [st1 EXCEPT !.storage = newThemeId]
        st3 == IF broadcastToAllWindows
               THEN [st2 EXCEPT !.out.broadcast = Append(@, newThemeId)]
               ELSE sendTelemetry(st2, newTheme)
    IN [st3 EXCEPT !.out.fired = Append(@, newThemeId),
                   !.out.atFire = Append(@, Observed(st3))]

\* findThemeData falling back to the first known theme when neither id is known
findThemeData_AnyKnown(allThemes, themeId, defaultId) ==
    LET themes == {i \in DOMAIN allThemes : allThemes[i].id = themeId}
        defaults == {i \in DOMAIN allThemes : allThemes[i].id = defaultId}
    IN IF themes # {} THEN Min(themes)
       ELSE IF defaultId # << >> /\ defaults # {} THEN Min(defaults)
       ELSE IF allThemes # << >> THEN 1
       ELSE 0

\* findThemeData without the fallback to the default id
findThemeData_NoDefault(allThemes, themeId, defaultId) ==
    LET themes == {i \in DOMAIN allThemes : allThemes[i].id = themeId}
    IN IF themes # {} THEN Min(themes) ELSE 0

\* findThemeData: the index of the contribution found, 0 for null
findThemeData(allThemes, themeId, defaultId) ==
    LET themes == {i \in DOMAIN allThemes : allThemes[i].id = themeId}
        defaults == {i \in DOMAIN allThemes : allThemes[i].id = defaultId}
    IN IF themes # {} THEN Min(themes)
       ELSE IF defaultId # << >> /\ defaults # {} THEN Min(defaults)
       ELSE 0

\* applyTheme emptying the installed stylesheet before it loads the document
applyTheme_ClearingFirst(st, c) ==
    LET theme == st.knownThemes[st.calls[c].data]
    IN IF Truthy(theme.styleSheetContent)
       THEN Settle(Overtake(onApply([st EXCEPT !.head =
                                                   _applyRules(@, theme.styleSheetContent.text,
                                                               colorThemeRulesClassName)],
                                    theme, st.calls[c].broadcast), c),
                   c, "true")
       ELSE [st EXCEPT !.calls[c].pc = "load", !.calls[c].path = theme.path,
                       !.head = _applyRules(@, << >>, colorThemeRulesClassName)]

\* applyTheme up to its first suspension: the cached stylesheet is applied at once,
\* otherwise the read of the theme's document is issued
applyTheme(st, c) ==
    LET theme == st.knownThemes[st.calls[c].data]
    IN IF Truthy(theme.styleSheetContent)
       THEN Settle(Overtake(onApply([st EXCEPT !.head =
                                                   _applyRules(@, theme.styleSheetContent.text,
                                                               colorThemeRulesClassName)],
                                    theme, st.calls[c].broadcast), c),
                   c, "true")
       ELSE [st EXCEPT !.calls[c].pc = "load", !.calls[c].path = theme.path]

\* applyThemeCSS once getColorThemes() has resolved
applyThemeCSS(st, c, defaultId) ==
    LET theme == findThemeData(st.knownThemes, st.calls[c].themeId, defaultId)
    IN IF theme # 0
       THEN applyTheme([st EXCEPT !.calls[c].data = theme,
                                  !.out.found = Append(@, <<"color", theme>>)], c)
       ELSE Settle(st, c, "false")

\* setColorTheme without the shortcut for the id that is already active
setColorTheme_NoShortcut(st, themeId, broadcastToAllWindows) ==
    LET c == Len(st.calls) + 1
        called(id) ==
            [st EXCEPT !.nCalls = @ + 1,
                       !.calls = Append(@, Call("color", themeId, id,
                                                broadcastToAllWindows, st.currentTheme))]
    IN IF themeId = << >>
       THEN Settle(called(themeId), c, "false")
       ELSE IF st.ready
            THEN applyThemeCSS(called(validateThemeId(themeId)), c, DEFAULT_THEME_ID)
            ELSE called(validateThemeId(themeId))

\* getColorTheme: the active id, else the persisted one, else the default
getColorTheme(st) ==
    IF st.currentTheme # << >> THEN st.currentTheme
    ELSE IF st.storage # << >> THEN st.storage
    ELSE DEFAULT_THEME_ID

setColorTheme(st, themeId, broadcastToAllWindows) ==
    LET c == Len(st.calls) + 1
        called(id) ==
            [st EXCEPT !.nCalls = @ + 1,
                       !.calls = Append(@, Call("color", themeId, id,
                                                broadcastToAllWindows, st.currentTheme))]
    IN IF themeId = << >>
       THEN Settle(called(themeId), c, "false")
       ELSE IF themeId = st.currentTheme
       THEN Settle(IF broadcastToAllWindows
                   THEN [called(themeId) EXCEPT !.out.broadcast = Append(@, themeId)]
                   ELSE called(themeId),
                   c, "true")
       ELSE IF st.ready
            THEN applyThemeCSS(called(validateThemeId(themeId)), c, DEFAULT_THEME_ID)
            ELSE called(validateThemeId(themeId))

initialize(st) ==
    LET st1 == [st EXCEPT !.container = TRUE]
        st2 == IF st1.storage = << >> THEN [st1 EXCEPT !.storage = DEFAULT_THEME_ID] ELSE st1
    IN setColorTheme(st2, st2.storage, FALSE)

(***************************************************************************)
(* _loadThemeDocument and the completion of applyTheme.                    *)
(***************************************************************************)
\* the including document's settings put before the included ones
RECURSIVE ConcatIncluded_IncluderFirst(_, _)
ConcatIncluded_IncluderFirst(docs, includedSettings) ==
    IF docs = << >> THEN includedSettings
    ELSE ConcatIncluded_IncluderFirst(SubSeq(docs, 1, Len(docs) - 1),
                                      docs[Len(docs)] \o includedSettings)

\* contentValue.settings = includedValue.settings.concat(contentValue.settings), for
\* every including document from the innermost to the outermost
RECURSIVE ConcatIncluded(_, _)
\* contentValue.settings = includedValue.settings.concat(contentValue.settings),
\* from the innermost including document outwards
ConcatIncluded(docs, includedSettings) ==
    IF docs = << >> THEN includedSettings
    ELSE ConcatIncluded(SubSeq(docs, 1, Len(docs) - 1), includedSettings \o docs[Len(docs)])

\* a pfs.readFile of request c completes, with the content (ok) or an I/O error
ReadDone(st, c, kind, ok) ==
    [st EXCEPT !.calls[c].nReads = @ + 1,
               !.out.reads = Append(@, [kind |-> kind, data |-> st.calls[c].data,
                                        path |-> st.calls[c].path, ok |-> ok])]

\* the success callback of applyTheme: compile, memoize, install, onApply
themeDocumentLoaded(st, c, themeSettings) ==
    LET i == st.calls[c].data
        theme == st.knownThemes[i]
        styleSheetContent == _processThemeObject(theme.id, [settings |-> themeSettings])
        st1 == [st EXCEPT !.out.compiled = Append(@, <<"color", i>>)]
    IN IF styleSheetContent.threw
       THEN Settle(st1, c, "rejected")
       ELSE LET st2 == [st1 EXCEPT
                          !.knownThemes[i].styleSheetContent =
                              StyleSheet(styleSheetContent.rules),
                          !.head = _applyRules(@, styleSheetContent.rules,
                                               colorThemeRulesClassName)]
            IN Settle(Overtake(onApply(st2, st2.knownThemes[i], st.calls[c].broadcast), c),
                      c, "true")

\* one pfs.readFile of _loadThemeDocument completes, with or without an I/O error
_loadThemeDocument(st, c, readOk) ==
    LET themePath == st.calls[c].path
        st1 == ReadDone(st, c, "color", readOk)
    IN IF ~readOk \/ themePath \notin DOMAIN st.themeFiles
       THEN Settle(st1, c, "rejected")
       ELSE LET contentValue == st.themeFiles[themePath]
            IN IF contentValue.errors
               THEN Settle(st1, c, "rejected")
               ELSE IF Paths_extname(themePath) = ".json" /\ contentValue.include # EmptyPath
               THEN [st1 EXCEPT
                        !.calls[c].docs = Append(@, contentValue.settings),
                        !.calls[c].path = Paths_join(Paths_dirname(themePath),
                                                     contentValue.include)]
               ELSE LET themeSettings ==
                            ConcatIncluded(st1.calls[c].docs, contentValue.settings)
                    IN themeDocumentLoaded(
                           [st1 EXCEPT !.out.loaded = Append(@, themeSettings)],
                           c, themeSettings)

(***************************************************************************)
(* Activation of a file-icon set.                                          *)
(***************************************************************************)
\* _applyFileIcons up to its first suspension
_applyFileIcons(st, c) ==
    LET data == st.knownFileIconContributions[st.calls[c].data]
    IN IF Truthy(data.styleSheetContent)
       THEN Settle(Overtake([st EXCEPT !.head = _applyRules(@, data.styleSheetContent.text,
                                                             fileIconRulesClassName)], c),
                   c, "true")
       ELSE [st EXCEPT !.calls[c].pc = "load", !.calls[c].path = data.path]

\* the callback of _updateFileIcons once getFileIcons() has resolved
_updateFileIcons(st, c) ==
    LET allIconSets == st.knownFileIconContributions
        matches == {i \in DOMAIN allIconSets : allIconSets[i].id = st.currentFileIcons}
        \* the loop stops at the first match; before it, every default entry is taken
        defaults == {i \in DOMAIN allIconSets : allIconSets[i].id = DEFAULT_FILE_ICONS}
        iconSetData == IF matches # {} THEN Min(matches)
                       ELSE IF defaults # {} THEN Max(defaults)
                       ELSE 0
    IN IF iconSetData # 0
       THEN _applyFileIcons([st EXCEPT !.calls[c].data = iconSetData,
                                       !.out.found = Append(@, <<"icons", iconSetData>>)], c)
       ELSE Settle(st, c, "false")

setFileIcons(st, fileIcons) ==
    LET c == Len(st.calls) + 1
        called == [st EXCEPT !.nCalls = @ + 1,
                             !.calls = Append(@, Call("icons", fileIcons,
                                                      fileIcons, FALSE, st.currentFileIcons))]
    IN IF fileIcons # st.currentFileIcons
       THEN LET st1 == [called EXCEPT !.currentFileIcons = fileIcons]
            IN IF st.ready THEN _updateFileIcons(st1, c) ELSE st1
       ELSE Settle(called, c, "true")

\* pfs.readFile of _loadFileIconsDocument completes; then the callbacks of _applyFileIcons
_loadFileIconsDocument(st, c, readOk) ==
    LET i == st.calls[c].data
        data == st.knownFileIconContributions[i]
        fileSetPath == st.calls[c].path
        st1 == ReadDone(st, c, "icons", readOk)
    IN IF ~readOk \/ fileSetPath \notin DOMAIN FileIconFiles
       THEN Settle(st1, c, "rejected")
       ELSE LET fileIconsDocument == FileIconFiles[fileSetPath]
            IN IF fileIconsDocument.errors
               THEN Settle(st1, c, "rejected")
               ELSE LET styleSheetContent ==
                            _processFileIconsObject(data.id, data.path, fileIconsDocument)
                    IN Settle(Overtake([st1 EXCEPT
                                  !.out.compiled = Append(@, <<"icons", i>>),
                                  !.knownFileIconContributions[i].styleSheetContent =
                                      StyleSheet(styleSheetContent),
                                  !.head = _applyRules(@, styleSheetContent,
                                                       fileIconRulesClassName)], c),
                              c, "true")

(***************************************************************************)
(* The inputs of the model.                                                *)
(***************************************************************************)
\* ids given to setColorTheme: falsy, legacy, the default, a cached-able theme, a
\* theme compiling to nothing, a theme that does not parse, an unknown id
ThemeRequests ==
    { << >>, <<"vs-dark", oldDefaultThemeExtensionId \o "-themes-dark_plus-tmTheme">>,
      DEFAULT_THEME_ID, <<"vs", "x-a-tmTheme">>, <<"vs-dark", "x-empty-json">>,
      <<"hc-black", "x-bad-json">>, <<"vs", "unknown">> }

\* what other windows broadcast: theme changes, and events of no concern
BroadcastEvents ==
    { [channel |-> THEME_CHANNEL, isString |-> TRUE, payload |-> DEFAULT_THEME_ID],
      [channel |-> THEME_CHANNEL, isString |-> FALSE, payload |-> << >>],
      [channel |-> "vscode:other", isString |-> TRUE, payload |-> DEFAULT_THEME_ID] }

\* values of the files.iconTheme setting
IconRequests == {Undefined, DEFAULT_FILE_ICONS, "x-icons", "x-bad"}

(***************************************************************************)
(* The actions.                                                            *)
(***************************************************************************)
\* the 'themes' extension point hands over one extension's contribution
ThemesDelivered(e) ==
    /\ ~ready
    /\ <<"themes", e>> \notin handled
    /\ \A d \in 1..(e - 1) : <<"themes", d>> \in handled
    /\ \A d \in DOMAIN FileIconExtensions : <<"fileIcons", d>> \in handled
    /\ Commit(onThemes([Here EXCEPT !.handled = @ \cup {<<"themes", e>>}], ThemeExtensions[e]))

\* the 'fileIcons' extension point hands over one extension's contribution
FileIconsDelivered(e) ==
    /\ ~ready
    /\ <<"fileIcons", e>> \notin handled
    /\ \A d \in 1..(e - 1) : <<"fileIcons", d>> \in handled
    /\ Commit(onFileIcons([Here EXCEPT !.handled = @ \cup {<<"fileIcons", e>>}],
                          FileIconExtensions[e]))

\* extensionService.onReady() resolves
ExtensionsReady ==
    /\ ~ready
    /\ Commit([Here EXCEPT !.ready = TRUE])

Initialize ==
    /\ ~container
    /\ nCalls < MaxCalls
    /\ Commit(initialize(Here))

SetColorTheme(themeId, broadcastToAllWindows) ==
    /\ nCalls < MaxCalls
    /\ Commit(setColorTheme(Here, themeId, broadcastToAllWindows))

\* the onBroadcast handler passing the change on to all windows again
OnBroadcast_Rebroadcasting(e) ==
    /\ nCalls < MaxCalls
    /\ IF e.channel = THEME_CHANNEL /\ e.isString
       THEN Commit(setColorTheme([Here EXCEPT !.out.received = <<e.payload>>],
                                 e.payload, TRUE))
       ELSE UNCHANGED vars

\* the windowService.onBroadcast handler
OnBroadcast(e) ==
    /\ nCalls < MaxCalls
    /\ IF e.channel = THEME_CHANNEL /\ e.isString
       THEN Commit(setColorTheme([Here EXCEPT !.out.received = <<e.payload>>],
                                 e.payload, FALSE))
       ELSE UNCHANGED vars

\* getColorThemes() resolves for a call made before the extensions were ready
ThemesResolved(c) ==
    /\ ready
    /\ calls[c].kind = "color" /\ calls[c].pc = "find"
    /\ Commit(applyThemeCSS(Here, c, DEFAULT_THEME_ID))

ThemeDocumentRead(c, readOk) ==
    /\ calls[c].kind = "color" /\ calls[c].pc = "load"
    /\ Commit(_loadThemeDocument(Here, c, readOk))

\* configurationService.loadConfiguration('files') resolves
ConfigurationLoaded(iconTheme) ==
    /\ nCalls < MaxCalls
    /\ IF ~Falsy(iconTheme)
       THEN Commit(setFileIcons(Here, iconTheme))
       ELSE UNCHANGED vars

\* configurationService.onDidUpdateConfiguration fires
ConfigurationUpdated(iconTheme) ==
    /\ nCalls < MaxCalls
    /\ Commit(setFileIcons(Here, iconTheme))

\* getFileIcons() resolves for a call made before the extensions were ready
FileIconsResolved(c) ==
    /\ ready
    /\ calls[c].kind = "icons" /\ calls[c].pc = "find"
    /\ Commit(_updateFileIcons(Here, c))

FileIconsDocumentRead(c, readOk) ==
    /\ calls[c].kind = "icons" /\ calls[c].pc = "load"
    /\ Commit(_loadFileIconsDocument(Here, c, readOk))

Next ==
    \/ \E e \in DOMAIN ThemeExtensions : ThemesDelivered(e)
    \/ \E e \in DOMAIN FileIconExtensions : FileIconsDelivered(e)
    \/ ExtensionsReady
    \/ Initialize
    \/ \E themeId \in ThemeRequests, b \in BOOLEAN : SetColorTheme(themeId, b)
    \/ \E e \in BroadcastEvents : OnBroadcast(e)
    \/ \E c \in DOMAIN calls : ThemesResolved(c)
    \/ \E c \in DOMAIN calls, readOk \in BOOLEAN : ThemeDocumentRead(c, readOk)
    \/ \E iconTheme \in IconRequests : ConfigurationLoaded(iconTheme)
    \/ \E iconTheme \in IconRequests : ConfigurationUpdated(iconTheme)
    \/ \E c \in DOMAIN calls : FileIconsResolved(c)
    \/ \E c \in DOMAIN calls, readOk \in BOOLEAN : FileIconsDocumentRead(c, readOk)

Spec == Init /\ [][Next]_vars

(***************************************************************************)
(* Vocabulary of the properties.                                           *)
(***************************************************************************)
\* the style elements of a kind installed in document.head
Installed(rulesClassName) == SelectSeq(head, LAMBDA el : el.className = rulesClassName)
ColorStyle == Installed(colorThemeRulesClassName)
IconStyle == Installed(fileIconRulesClassName)
StyleBlock(rulesClassName, text) == <<[className |-> rulesClassName, innerHTML |-> text]>>

\* the cached stylesheets of the contributions
ThemeCache == [i \in DOMAIN knownThemes |-> knownThemes[i].styleSheetContent]
IconCache ==
    [i \in DOMAIN knownFileIconContributions |-> knownFileIconContributions[i].styleSheetContent]
Cached(content) == content.defined /\ content.text # << >>

KnownIds == {knownThemes[i].id : i \in DOMAIN knownThemes}

\* a request settled in the step that made it
MadeNow(r) == nCalls' = nCalls + 1 /\ Len(calls') = Len(calls)

\* nothing of the color theme's public state changes in a step
ColorUntouched ==
    /\ currentTheme' = currentTheme
    /\ rootClasses' = rootClasses
    /\ storage' = storage
    /\ ColorStyle' = ColorStyle
\* nobody is told anything in a step
Silent == out'.fired = << >> /\ out'.broadcast = << >>

(***************************************************************************)
(* C1: setColorTheme(id, false) with id the active color-theme id returns  *)
(* success and changes nothing: nothing is read or compiled, the installed *)
(* stylesheet, the root's classes, the persisted id and the active id stay *)
(* as they are, nothing is broadcast and no subscriber is notified.        *)
(***************************************************************************)
C1_SameIdStep ==
    \A k \in DOMAIN out'.settled :
        LET r == out'.settled[k]
        IN (/\ r.call.kind = "color"
            /\ MadeNow(r)
            /\ r.call.requested # << >>
            /\ r.call.requested = currentTheme
            /\ ~r.call.broadcast)
           => /\ r.result = "true"
              /\ out'.reads = << >> /\ out'.compiled = << >>
              /\ ColorUntouched
              /\ ThemeCache' = ThemeCache
              /\ Silent
C1_SameIdIsNoOp == [][C1_SameIdStep]_vars

C1_Witness ==
    \E k \in DOMAIN out.settled :
        /\ out.settled[k].call.kind = "color"
        /\ out.settled[k].call.requested = currentTheme
        /\ currentTheme # << >>
        /\ ~out.settled[k].call.broadcast
        /\ out.settled[k].call.data = 0
        /\ out.settled[k].result = "true"

(***************************************************************************)
(* C2: when reading or parsing the theme document, or a document of its    *)
(* include chain, fails, the call is rejected and no step of it has        *)
(* changed the active id, the installed color stylesheet, the root's       *)
(* classes, the persisted id or any cached stylesheet, nor notified or     *)
(* broadcast anything: these change only in a step in which a color        *)
(* request resolves to true (initialize's storing of the default id in an  *)
(* empty store aside, which precedes its call).                            *)
(***************************************************************************)
ColorSuccessStep ==
    \E k \in DOMAIN out'.settled :
        out'.settled[k].call.kind = "color" /\ out'.settled[k].result = "true"
InitializeStoredDefault ==
    ~container /\ container' /\ storage = << >> /\ storage' = DEFAULT_THEME_ID

C2_FailureStep ==
    /\ \A k \in DOMAIN out'.settled :
          (out'.settled[k].call.kind = "color" /\ out'.settled[k].result = "rejected")
          => out'.settled[k].call.nReads >= 1
    /\ ~ColorSuccessStep
       => /\ currentTheme' = currentTheme
          /\ rootClasses' = rootClasses
          /\ ColorStyle' = ColorStyle
          /\ ThemeCache' = ThemeCache \/ Len(knownThemes') > Len(knownThemes)
          /\ storage' = storage \/ InitializeStoredDefault
          /\ Silent
C2_FailedLoadChangesNothing == [][C2_FailureStep]_vars

C2_Witness ==
    \E k \in DOMAIN out.settled :
        /\ out.settled[k].call.kind = "color"
        /\ out.settled[k].result = "rejected"
        /\ out.settled[k].call.nReads = 2
        /\ currentTheme # << >>
        /\ ColorStyle # << >>

(***************************************************************************)
(* C3: when reading or parsing the icon-set document fails while a set     *)
(* other than the current one is being activated, currentFileIcons and the *)
(* installed file-icon stylesheet are what they were before the call.      *)
(* The request considered is the one that last set currentFileIcons.       *)
(***************************************************************************)
C3_FailureStep ==
    \A k \in DOMAIN out'.settled :
        LET r == out'.settled[k]
        IN (/\ r.call.kind = "icons"
            /\ r.result = "rejected"
            /\ r.call.requested # r.call.before
            /\ r.call.overtakenBy = "none"
            /\ currentFileIcons = r.call.requested)
           => /\ currentFileIcons' = r.call.before
              /\ IconStyle' = IconStyle
C3_FailedLoadKeepsIconSet == [][C3_FailureStep]_vars

(***************************************************************************)
(* C4: a color request for a non-empty id that, once migrated, no known    *)
(* contribution has, while none has the default id either, resolves to     *)
(* false without reading anything and leaves the active id, the installed  *)
(* stylesheet, the root's classes, the persisted id and the caches as they *)
(* are; nothing is notified or broadcast. (When the request is the one of *)
(* initialize with an empty store, initialize has stored the default id    *)
(* before making it.)                                                      *)
(***************************************************************************)
C4_UnknownStep ==
    \A k \in DOMAIN out'.settled :
        LET r == out'.settled[k]
        IN (/\ r.call.kind = "color"
            /\ r.call.requested # << >>
            /\ validateThemeId(r.call.requested) \notin KnownIds
            /\ DEFAULT_THEME_ID \notin KnownIds)
           => /\ r.result = "false"
              /\ r.call.nReads = 0
              /\ out'.found = << >> /\ out'.reads = << >> /\ out'.compiled = << >>
              /\ currentTheme' = currentTheme
              /\ rootClasses' = rootClasses
              /\ ColorStyle' = ColorStyle
              /\ storage' = storage \/ InitializeStoredDefault
              /\ ThemeCache' = ThemeCache
              /\ Silent
C4_UnknownIdNoDefault == [][C4_UnknownStep]_vars

C4_Witness ==
    /\ ready
    /\ DEFAULT_THEME_ID \notin KnownIds
    /\ ColorStyle # << >>
    /\ storage # << >>
    /\ \E k \in DOMAIN out.settled :
          /\ out.settled[k].call.kind = "color"
          /\ out.settled[k].call.requested = <<"vs", "unknown">>
          /\ out.settled[k].result = "false"

(***************************************************************************)
(* C5: overlapping color requests are never cancelled, and the one whose   *)
(* apply step runs last wins, whichever was requested last. An apply step  *)
(* installs the theme's stylesheet, persists its id and notifies of it in  *)
(* one step, so getColorTheme() answers its id; the active id and the      *)
(* root's classes become the theme's when a UI root is registered, and     *)
(* stay as they are when none is. No other step changes any of these       *)
(* (initialize's storing of the default id in an empty store aside). A     *)
(* request leaves only by settling, and a request whose last document has  *)
(* been read applies in that step, overtaken or not.                       *)
(***************************************************************************)
ActiveId == getColorTheme(Here)

\* r is a request that has just applied a theme (not the same-id shortcut)
Applied(r) == r.call.kind = "color" /\ r.result = "true" /\ r.call.data # 0

C5_ApplyStep ==
    /\ \A k \in DOMAIN out'.settled :
          LET r == out'.settled[k]
              i == r.call.data
          IN Applied(r)
             => /\ ColorStyle' = StyleBlock(colorThemeRulesClassName, ThemeCache'[i].text)
                /\ storage' = knownThemes[i].id
                /\ out'.fired = <<knownThemes[i].id>>
                /\ ActiveId' = knownThemes[i].id
                /\ IF container'
                   THEN /\ currentTheme' = knownThemes[i].id
                        /\ rootClasses' = (rootClasses \ Tokens(currentTheme))
                                              \cup Tokens(knownThemes[i].id)
                   ELSE /\ currentTheme' = currentTheme
                        /\ rootClasses' = rootClasses
    /\ (\A k \in DOMAIN out'.settled : ~Applied(out'.settled[k]))
       => /\ currentTheme' = currentTheme
          /\ rootClasses' = rootClasses
          /\ ColorStyle' = ColorStyle
          /\ storage' = storage \/ InitializeStoredDefault
    /\ Len(calls') + Len(out'.settled) = Len(calls) + (nCalls' - nCalls)
    /\ \A c \in DOMAIN calls :
          \/ \E d \in DOMAIN calls' :
                /\ calls'[d].kind = calls[c].kind
                /\ calls'[d].requested = calls[c].requested
                /\ calls'[d].before = calls[c].before
          \/ \E k \in DOMAIN out'.settled :
                /\ out'.settled[k].call.kind = calls[c].kind
                /\ out'.settled[k].call.requested = calls[c].requested
                /\ out'.settled[k].call.before = calls[c].before

\* a theme document that parses and includes no other: the last of a chain
LastDocument(path) ==
    /\ path \in DOMAIN themeFiles
    /\ ~themeFiles[path].errors
    /\ Paths_extname(path) = ".json" => themeFiles[path].include = EmptyPath

\* the request whose last document has been read applies in that step
C5_NoCancellation ==
    \A k \in DOMAIN out'.reads :
        LET read == out'.reads[k]
        IN (read.kind = "color" /\ read.ok /\ LastDocument(read.path))
           => /\ out'.fired = <<knownThemes[read.data].id>>
              /\ \E j \in DOMAIN out'.settled :
                    Applied(out'.settled[j]) /\ out'.settled[j].call.data = read.data

C5_LastApplyWins == [][C5_ApplyStep /\ C5_NoCancellation]_vars

\* the older of two overlapping requests for different themes has applied last, with
\* a UI root registered: its theme is the active one
C5_Witness ==
    /\ container
    /\ calls = << >>
    /\ \E k \in DOMAIN out.settled :
          LET r == out.settled[k]
          IN /\ Applied(r)
             /\ r.call.overtakenBy = "younger"
             /\ r.call.nReads >= 1
             /\ currentTheme = knownThemes[r.call.data].id
             /\ storage = currentTheme
             /\ Tokens(currentTheme) \subseteq rootClasses
             /\ ColorStyle = StyleBlock(colorThemeRulesClassName, ThemeCache[r.call.data].text)
             /\ \E j \in DOMAIN knownThemes :
                   knownThemes[j].id # currentTheme /\ Cached(ThemeCache[j])

\* the claim as first stated: after two overlapping requests for different themes,
\* the active id and the root's class too are those of the last apply
C5_OverlapStep ==
    \A k \in DOMAIN out'.settled :
        LET r == out'.settled[k]
            i == r.call.data
        IN (Applied(r) /\ r.call.overtakenBy # "none" /\ storage # knownThemes[i].id)
           => /\ currentTheme' = knownThemes[i].id
              /\ Tokens(knownThemes[i].id) \subseteq rootClasses'
              /\ storage' = knownThemes[i].id
              /\ ColorStyle' = StyleBlock(colorThemeRulesClassName, ThemeCache'[i].text)
C5_LastApplySetsActiveId == [][C5_OverlapStep]_vars

(***************************************************************************)
(* C6: there is at most one installed style block per kind, and it holds   *)
(* the compiled stylesheet of one contribution of that kind; a successful  *)
(* apply makes its kind's block exactly the applied contribution's         *)
(* compiled stylesheet and leaves the other kind's block as it is.         *)
(***************************************************************************)
\* r is an icon request that has just installed a set (not the same-id shortcut)
IconsApplied(r) == r.call.kind = "icons" /\ r.result = "true" /\ r.call.data # 0

C6_OneBlockPerKind ==
    /\ Len(ColorStyle) <= 1
    /\ Len(IconStyle) <= 1
    /\ Len(head) = Len(ColorStyle) + Len(IconStyle)
    /\ ColorStyle # << >>
       => \E i \in DOMAIN knownThemes :
             ThemeCache[i].defined /\ ColorStyle[1].innerHTML = ThemeCache[i].text
    /\ IconStyle # << >>
       => \E i \in DOMAIN knownFileIconContributions :
             IconCache[i].defined /\ IconStyle[1].innerHTML = IconCache[i].text

C6_ApplyOverwrites ==
    \A k \in DOMAIN out'.settled :
        LET r == out'.settled[k]
        IN /\ Applied(r)
              => /\ ThemeCache'[r.call.data].defined
                 /\ ColorStyle' = StyleBlock(colorThemeRulesClassName,
                                             ThemeCache'[r.call.data].text)
                 /\ IconStyle' = IconStyle
           /\ IconsApplied(r)
              => /\ IconCache'[r.call.data].defined
                 /\ IconStyle' = StyleBlock(fileIconRulesClassName,
                                            IconCache'[r.call.data].text)
                 /\ ColorStyle' = ColorStyle

C6_SingleSlotPerKind == []C6_OneBlockPerKind /\ [][C6_ApplyOverwrites]_vars

\* the color block has been overwritten: two themes with different compiled stylesheets
\* have been applied, and the single block holds the stylesheet of the persisted one
C6_Witness ==
    /\ Len(ColorStyle) = 1
    /\ \E i, j \in DOMAIN knownThemes :
          /\ i # j
          /\ Cached(ThemeCache[i]) /\ Cached(ThemeCache[j])
          /\ ThemeCache[i].text # ThemeCache[j].text
          /\ storage = knownThemes[j].id
          /\ ColorStyle[1].innerHTML = ThemeCache[j].text

(***************************************************************************)
(* C7: the document of a contribution is read and compiled at most once in *)
(* the process lifetime: whenever a document is compiled, its contribution *)
(* has no compiled stylesheet yet.                                         *)
(***************************************************************************)
C7_CompileStep ==
    \A k \in DOMAIN out'.compiled :
        LET kind == out'.compiled[k][1]
            i == out'.compiled[k][2]
        IN IF kind = "color" THEN ~ThemeCache[i].defined ELSE ~IconCache[i].defined
C7_CompiledAtMostOnce == [][C7_CompileStep]_vars

(***************************************************************************)
(* C8: a compiled stylesheet, once cached, is never cleared or changed;    *)
(* and a request that finds a contribution whose cached stylesheet is not  *)
(* empty installs the cached text and resolves to true in that same step,  *)
(* reading and compiling nothing.                                          *)
(***************************************************************************)
CacheOf(kind) == IF kind = "color" THEN ThemeCache ELSE IconCache

C8_CacheKept ==
    /\ \A i \in DOMAIN ThemeCache : ThemeCache[i].defined => ThemeCache'[i] = ThemeCache[i]
    /\ \A i \in DOMAIN IconCache : IconCache[i].defined => IconCache'[i] = IconCache[i]

C8_CacheUsed ==
    \A k \in DOMAIN out'.found :
        LET kind == out'.found[k][1]
            i == out'.found[k][2]
        IN Cached(CacheOf(kind)[i])
           => /\ out'.reads = << >> /\ out'.compiled = << >>
              /\ \E j \in DOMAIN out'.settled :
                    /\ out'.settled[j].call.kind = kind
                    /\ out'.settled[j].call.data = i
                    /\ out'.settled[j].call.nReads = 0
                    /\ out'.settled[j].result = "true"
              /\ IF kind = "color"
                 THEN ColorStyle' = StyleBlock(colorThemeRulesClassName, ThemeCache[i].text)
                 ELSE IconStyle' = StyleBlock(fileIconRulesClassName, IconCache[i].text)

C8_CacheReused == [][C8_CacheKept /\ C8_CacheUsed]_vars

\* a theme applied from its cache (nothing read) over the stylesheet of another theme
C8_Witness ==
    /\ out.reads = << >> /\ out.compiled = << >>
    /\ \E k \in DOMAIN out.found, j \in DOMAIN out.settled :
          /\ out.found[k][1] = "color"
          /\ out.settled[j].call.data = out.found[k][2]
          /\ out.settled[j].call.nReads = 0
          /\ out.settled[j].result = "true"
          /\ Cached(ThemeCache[out.found[k][2]])
          /\ ColorStyle = StyleBlock(colorThemeRulesClassName, ThemeCache[out.found[k][2]].text)

(***************************************************************************)
(* C9: no extension is reported to telemetry twice, and an extension is    *)
(* reported (once, with the id of the theme applied) in the first apply    *)
(* step of one of its themes that is made without the broadcast flag; an   *)
(* apply step made with the flag broadcasts the id and reports nothing.    *)
(***************************************************************************)
Reported == {telemetry[k].id : k \in DOMAIN telemetry}

C9_AtMostOnce ==
    /\ \A j, k \in DOMAIN telemetry : telemetry[j].id = telemetry[k].id => j = k
    /\ themeExtensionsActivated = Reported

C9_ReportStep ==
    /\ \A k \in DOMAIN out'.settled :
          LET r == out'.settled[k]
              theme == knownThemes[r.call.data]
          IN Applied(r)
             => IF ~r.call.broadcast /\ theme.extensionId \notin Reported
                THEN /\ out'.logged = <<[id |-> theme.extensionId, themeId |-> theme.id]>>
                     /\ telemetry' = Append(telemetry, out'.logged[1])
                ELSE /\ out'.logged = << >>
                     /\ telemetry' = telemetry
    /\ (\A k \in DOMAIN out'.settled : ~Applied(out'.settled[k]))
       => out'.logged = << >> /\ telemetry' = telemetry

C9_ReportedOnce == []C9_AtMostOnce /\ [][C9_ReportStep]_vars

\* a second theme of an extension already reported has just been applied without the
\* broadcast flag, and nothing was reported
C9_Witness ==
    /\ out.logged = << >>
    /\ \E k \in DOMAIN out.settled :
          LET r == out.settled[k]
          IN /\ Applied(r)
             /\ ~r.call.broadcast
             /\ \E j \in DOMAIN telemetry :
                   /\ telemetry[j].id = knownThemes[r.call.data].extensionId
                   /\ telemetry[j].themeId # knownThemes[r.call.data].id

\* the claim as first stated: the extension of every theme applied has been reported
C9_FirstApplyStep ==
    \A k \in DOMAIN out'.settled :
        LET r == out'.settled[k]
        IN Applied(r)
           => Len(SelectSeq(telemetry', LAMBDA e : e.id = knownThemes[r.call.data].extensionId))
                  = 1
C9_ReportedAtFirstApply == [][C9_FirstApplyStep]_vars

(***************************************************************************)
(* C10: a color request for a non-empty id that, once migrated, no known   *)
(* contribution has, while one has the default id, looks up the default    *)
(* contribution. When its stylesheet is cached or loads, the request       *)
(* resolves to true and the installed stylesheet, the persisted id and the *)
(* id notified are the default contribution's, as are the active id and    *)
(* the root's classes when a UI root is registered (they stay as they are  *)
(* when none is); when the load fails the request is rejected and nothing  *)
(* changes. The requested id is never made active or persisted.            *)
(***************************************************************************)
DefaultIndex == Min({i \in DOMAIN knownThemes : knownThemes[i].id = DEFAULT_THEME_ID})

\* r was made for a non-empty id that is unknown once migrated, the default being known
FallsBack(r) ==
    /\ r.call.kind = "color"
    /\ r.call.requested # << >>
    /\ validateThemeId(r.call.requested) \notin KnownIds
    /\ DEFAULT_THEME_ID \in KnownIds

C10_FallbackStep ==
    \A k \in DOMAIN out'.settled :
        LET r == out'.settled[k]
        IN FallsBack(r)
           => /\ r.call.data = DefaultIndex
              /\ r.result \in {"true", "rejected"}
              /\ r.result = "true"
                 => /\ ColorStyle' = StyleBlock(colorThemeRulesClassName,
                                                ThemeCache'[DefaultIndex].text)
                    /\ storage' = DEFAULT_THEME_ID
                    /\ out'.fired = <<DEFAULT_THEME_ID>>
                    /\ ActiveId' = DEFAULT_THEME_ID
                    /\ IF container'
                       THEN /\ currentTheme' = DEFAULT_THEME_ID
                            /\ rootClasses' = (rootClasses \ Tokens(currentTheme))
                                                  \cup Tokens(DEFAULT_THEME_ID)
                       ELSE /\ currentTheme' = currentTheme
                            /\ rootClasses' = rootClasses
              /\ r.result = "rejected"
                 => /\ r.call.nReads >= 1
                    /\ ColorUntouched
                    /\ Silent
              /\ currentTheme' # r.call.requested
              /\ storage' # r.call.requested

\* a request in flight for an unknown id is loading the default contribution
C10_FallbackInFlight ==
    \A c \in DOMAIN calls :
        (/\ calls[c].kind = "color" /\ calls[c].pc = "load"
         /\ validateThemeId(calls[c].requested) \notin KnownIds)
        => calls[c].data = DefaultIndex

C10_UnknownIdAppliesDefault == []C10_FallbackInFlight /\ [][C10_FallbackStep]_vars

\* a request for an unknown id has loaded the default theme's documents and applied
\* it: the default is now active, persisted and installed
C10_Witness ==
    /\ container
    /\ currentTheme = DEFAULT_THEME_ID
    /\ storage = DEFAULT_THEME_ID
    /\ Tokens(DEFAULT_THEME_ID) \subseteq rootClasses
    /\ out.fired = <<DEFAULT_THEME_ID>>
    /\ \E k \in DOMAIN out.settled :
          /\ out.settled[k].call.requested = <<"vs", "unknown">>
          /\ out.settled[k].call.nReads = 2
          /\ out.settled[k].result = "true"
          /\ ColorStyle = StyleBlock(colorThemeRulesClassName,
                                     ThemeCache[out.settled[k].call.data].text)

\* the claim as first stated, for the requests whose load succeeds: the default
\* becomes the active id and the class of the root
C10_SuccessStep ==
    \A k \in DOMAIN out'.settled :
        LET r == out'.settled[k]
        IN (FallsBack(r) /\ r.result = "true")
           => /\ currentTheme' = DEFAULT_THEME_ID
              /\ Tokens(DEFAULT_THEME_ID) \subseteq rootClasses'
              /\ storage' = DEFAULT_THEME_ID
              /\ out'.fired = <<DEFAULT_THEME_ID>>
C10_DefaultBecomesActive == [][C10_SuccessStep]_vars

(***************************************************************************)
(* C11: contributions registered under one id coexist in the list, and a   *)
(* lookup that ends at that id, requested or reached as the default,       *)
(* finds the earliest-registered entry with it: no earlier entry of the    *)
(* list has the id of the entry found. For color themes and icon sets.     *)
(***************************************************************************)
KnownOf(kind) == IF kind = "color" THEN knownThemes ELSE knownFileIconContributions

C11_LookupStep ==
    \A k \in DOMAIN out'.found :
        LET known == KnownOf(out'.found[k][1])
            i == out'.found[k][2]
        IN \A j \in 1..(i - 1) : known[j].id # known[i].id
C11_EarliestEntryFound == [][C11_LookupStep]_vars

(***************************************************************************)
(* C12: a step in which a color request applies a theme notifies the       *)
(* subscribers of onColorThemeChange exactly once, with the applied        *)
(* theme's id, and when they are called the theme's stylesheet is already  *)
(* installed, its id persisted and, when a UI root is registered, the      *)
(* root's class switched and the active id set. No other step notifies:    *)
(* not a request answered by the same-id shortcut, not one that finds no   *)
(* contribution, not one whose load fails.                                 *)
(***************************************************************************)
C12_NotifyStep ==
    /\ \A k \in DOMAIN out'.settled :
          LET r == out'.settled[k]
              i == r.call.data
              id == knownThemes[i].id
          IN Applied(r)
             => /\ out'.fired = <<id>>
                /\ Len(out'.atFire) = 1
                /\ SelectSeq(out'.atFire[1].head,
                             LAMBDA el : el.className = colorThemeRulesClassName)
                       = StyleBlock(colorThemeRulesClassName, ThemeCache'[i].text)
                /\ out'.atFire[1].storage = id
                /\ container'
                   => /\ out'.atFire[1].currentTheme = id
                      /\ out'.atFire[1].rootClasses
                             = (rootClasses \ Tokens(currentTheme)) \cup Tokens(id)
    /\ (\A k \in DOMAIN out'.settled : ~Applied(out'.settled[k]))
       => out'.fired = << >> /\ out'.atFire = << >>
C12_NotifiedOnceAfterApply == [][C12_NotifyStep]_vars

\* a theme has been applied over another one, with a UI root: the subscribers were
\* called once, and found the new stylesheet, class and persisted id
C12_Witness ==
    /\ container
    /\ Len(out.fired) = 1
    /\ \E k \in DOMAIN out.settled :
          LET r == out.settled[k]
          IN /\ Applied(r)
             /\ r.call.nReads >= 1
             /\ r.call.before # << >>
             /\ r.call.before # out.fired[1]
             /\ out.atFire[1].storage = out.fired[1]
             /\ out.atFire[1].currentTheme = out.fired[1]
             /\ Tokens(r.call.before) \cap out.atFire[1].rootClasses = {}

(***************************************************************************)
(* C13: when an extension point hands over an array, every entry whose     *)
(* path is missing or not a string (or, for icon sets, whose id is) adds   *)
(* one error to the collector and no contribution; every other entry,      *)
(* whether it stands before or after an invalid one, is appended to the    *)
(* known list, in array order, with the path resolved in the extension's   *)
(* folder. No step of the program removes or reorders a known entry.       *)
(***************************************************************************)
C13_Errors(messages) == SelectSeq(messages, LAMBDA msg : msg.severity = "error")

C13_NoPath(entry) == entry.pathType # "string" \/ entry.path = EmptyPath

C13_NoId(entry) == entry.idType # "string" \/ entry.id = ""

C13_Ingested(ext, valid, before, after) ==
    /\ Len(after) = Len(before) + Len(valid)
    /\ \A j \in DOMAIN valid :
          /\ after[Len(before) + j].path = Paths_normalize(Paths_join(ext.folder, valid[j].path))
          /\ after[Len(before) + j].extensionId = ext.id
    /\ Len(C13_Errors(collector')) =
           Len(C13_Errors(collector)) + (Len(ext.value) - Len(valid))

\* the entries of a known list without the stylesheets cached on them
C13_Entries(known) ==
    [i \in DOMAIN known |->
        [id |-> known[i].id, path |-> known[i].path, extensionId |-> known[i].extensionId]]

C13_IngestStep ==
    /\ SubSeq(C13_Entries(knownThemes'), 1, Len(knownThemes)) = C13_Entries(knownThemes)
    /\ SubSeq(C13_Entries(knownFileIconContributions'), 1, Len(knownFileIconContributions))
           = C13_Entries(knownFileIconContributions)
    /\ SubSeq(collector', 1, Len(collector)) = collector
    /\ \A e \in DOMAIN ThemeExtensions :
          <<"themes", e>> \in handled' \ handled
          => C13_Ingested(ThemeExtensions[e],
                          SelectSeq(ThemeExtensions[e].value, LAMBDA t : ~C13_NoPath(t)),
                          knownThemes, knownThemes')
    /\ \A e \in DOMAIN FileIconExtensions :
          <<"fileIcons", e>> \in handled' \ handled
          => /\ C13_Ingested(FileIconExtensions[e],
                             SelectSeq(FileIconExtensions[e].value,
                                       LAMBDA t : ~C13_NoPath(t) /\ ~C13_NoId(t)),
                             knownFileIconContributions, knownFileIconContributions')
             /\ \A j \in 1..(Len(knownFileIconContributions')
                                - Len(knownFileIconContributions)) :
                   knownFileIconContributions'[Len(knownFileIconContributions) + j].id
                       = SelectSeq(FileIconExtensions[e].value,
                                   LAMBDA t : ~C13_NoPath(t) /\ ~C13_NoId(t))[j].id
    /\ handled' = handled
       => Len(knownThemes') = Len(knownThemes)
          /\ Len(knownFileIconContributions') = Len(knownFileIconContributions)
C13_InvalidEntriesSkipped == [][C13_IngestStep]_vars

\* both arrays with invalid entries between valid ones have been handed over: the
\* entries after the invalid ones are registered, and the errors collected
C13_Witness ==
    /\ <<"themes", 1>> \in handled
    /\ <<"fileIcons", 1>> \in handled
    /\ Len(SelectSeq(knownThemes, LAMBDA t : t.extensionId = "x")) = 3
    /\ Len(SelectSeq(knownFileIconContributions, LAMBDA t : t.extensionId = "x")) = 2
    /\ Len(C13_Errors(collector)) = 3

(***************************************************************************)
(* The loader on its own: one contributed theme, './a.json', whose         *)
(* document may include others. The file system is any arrangement of up   *)
(* to MaxDepth documents, each unparsable, complete, or including the next *)
(* one; the last may include a file that does not exist.                   *)
(***************************************************************************)
MaxDepth == 3

DocStems == <<"a", "b", "c", "d", "e">>
DocDigits == <<"1", "2", "3", "4", "5">>
DocPath(k) == Path(<<"ext", "c">>, DocStems[k], "json")
DocColor(k) ==
    Hex(DocDigits[k], DocDigits[k], DocDigits[k], DocDigits[k], DocDigits[k], DocDigits[k])

\* the entries document k may hold: an editor-defaults record and a scoped one
DocDefaults(k) ==
    ThemeSetting(NoScope, Settings(<< <<"background", DocColor(k)>> >>))
DocScoped(k) ==
    ThemeSetting(ScopeString(<<DocStems[k]>>), Settings(<< <<"foreground", DocColor(k)>> >>))

DocKinds == {"errors", "complete", "including"}

LoadDocument(k, kind, defaults) ==
    ThemeDocument(kind = "errors",
                  IF kind = "including" THEN Path(<<".">>, DocStems[k + 1], "json")
                  ELSE EmptyPath,
                  (IF defaults THEN <<DocDefaults(k)>> ELSE << >>) \o <<DocScoped(k)>>)

LoadFileSystems ==
    { [p \in {DocPath(k) : k \in 1..MaxDepth} |->
          LET k == CHOOSE d \in 1..MaxDepth : DocPath(d) = p
          IN LoadDocument(k, shape[k][1], shape[k][2])]
      : shape \in [1..MaxDepth -> DocKinds \X BOOLEAN] }

LoadExtension ==
    Extension("c", <<"ext", "c">>, TRUE,
              << ThemeEntry("vs", "string", Path(<<".">>, "a", "json")) >>)

\* the known themes and the collector after onThemes has handled LoadExtension
LoadRegistered == onThemes([knownThemes |-> << >>, collector |-> << >>], LoadExtension)

InitLoad ==
    /\ knownThemes = LoadRegistered.knownThemes
    /\ knownFileIconContributions = << >>
    /\ currentTheme = << >>
    /\ currentFileIcons = Null
    /\ container = FALSE
    /\ rootClasses = {}
    /\ themeExtensionsActivated = {}
    /\ ready = TRUE
    /\ handled = {<<"themes", 1>>}
    /\ collector = LoadRegistered.collector
    /\ storage = << >>
    /\ head = << >>
    /\ telemetry = << >>
    /\ calls = << >>
    /\ nCalls = 0
    /\ out = NoEvents
    /\ themeFiles \in LoadFileSystems
    /\ probe = NoProbe

NextLoad ==
    \/ \E b \in BOOLEAN : SetColorTheme(LoadRegistered.knownThemes[1].id, b)
    \/ \E c \in DOMAIN calls, readOk \in BOOLEAN : ThemeDocumentRead(c, readOk)

SpecLoad == InitLoad /\ [][NextLoad]_vars

(***************************************************************************)
(* C14: when the load of a theme document completes, its settings are the  *)
(* concatenation of the documents of the include chain, from the deepest   *)
(* included one to the requested one, each document's entries in their own *)
(* order, none dropped and none duplicated; and a read error, a missing    *)
(* file or a parse error in any document of the chain rejects the request  *)
(* in that step, with nothing loaded, compiled or installed.               *)
(***************************************************************************)
\* the documents of the chain that starts at document k, requested one first
RECURSIVE C14_Chain(_)
C14_Chain(k) ==
    IF k > MaxDepth \/ themeFiles[DocPath(k)].include = EmptyPath THEN <<k>>
    ELSE <<k>> \o C14_Chain(k + 1)

\* the settings of the documents of a chain, the deepest document's first
RECURSIVE C14_DeepestFirst(_)
C14_DeepestFirst(chain) ==
    IF chain = << >> THEN << >>
    ELSE C14_DeepestFirst(Tail(chain)) \o themeFiles[DocPath(Head(chain))].settings

C14_LoadStep ==
    /\ \A i \in DOMAIN out'.loaded :
          /\ C14_Chain(1)[Len(C14_Chain(1))] <= MaxDepth
          /\ out'.loaded[i] = C14_DeepestFirst(C14_Chain(1))
    /\ \A i \in DOMAIN out'.reads :
          LET read == out'.reads[i]
          IN (~read.ok \/ read.path \notin DOMAIN themeFiles \/ themeFiles[read.path].errors)
             => /\ Len(out'.settled) = 1
                /\ out'.settled[1].result = "rejected"
                /\ out'.loaded = << >>
                /\ out'.compiled = << >>
                /\ head' = head
                /\ knownThemes' = knownThemes
C14_IncludeChainConcatenated == [][C14_LoadStep]_vars

\* a chain of three documents has been loaded
C14_Witness ==
    /\ Len(out.loaded) = 1
    /\ Len(out.loaded[1]) >= 4
    /\ \E i \in DOMAIN out.settled : out.settled[i].call.nReads = 3

(***************************************************************************)
(* C15: when the requested document A includes a document B and both begin *)
(* with a scope-less editor-defaults entry, the whole-editor rules of the  *)
(* compiled stylesheet are generated from A's values.                      *)
(***************************************************************************)
C15_CompileStep ==
    \A i \in DOMAIN out'.loaded :
        LET A == themeFiles[DocPath(1)]
            B == themeFiles[DocPath(2)]
            text == knownThemes'[1].styleSheetContent.text
        IN (/\ A.include # EmptyPath
            /\ A.settings[1] = DocDefaults(1)
            /\ B.settings[1] = DocDefaults(2))
           => /\ \E r \in DOMAIN text : text[r].template = "monaco-editor-background"
              /\ \A r \in DOMAIN text :
                    text[r].template = "monaco-editor-background"
                    => text[r].body = <<Color_toString(Color_parse(DocColor(1)))>>
C15_EditorRulesFromIncluder == [][C15_CompileStep]_vars

(***************************************************************************)
(* The pure functions on their own: an input is drawn from a bounded set   *)
(* and the function applied to it once. The service stays as constructed.  *)
(***************************************************************************)
service == <<knownThemes, knownFileIconContributions, currentTheme, currentFileIcons,
             container, rootClasses, themeExtensionsActivated, ready, handled, collector,
             storage, head, telemetry, calls, nCalls, out, themeFiles>>

Pending(fn) == probe.fn = fn /\ probe.output = << >>
Returned(fn) == probe.fn = fn /\ probe.output # << >>

\* the colour strings: '#' or a hex digit, then up to MaxBody characters, all the
\* same but for at most one
MaxBody == 9
ColorInputs ==
    {<< >>} \cup
    { <<first>> \o [i \in 1..n |-> IF i = pos THEN other ELSE base]
      : first \in {"#", "f"}, n \in 0..MaxBody, pos \in 0..MaxBody,
        base \in {"0", "f", "A"}, other \in {"1", "g", " "} }

\* the settings lists: up to MaxEntries entries; the first may be an editor-defaults
\* record with any of the six attributes, each of its own colour
MaxEntries == 3
EditorAttrs == <<"background", "foreground", "selection", "lineHighlight", "caret",
                 "invisibles">>
EditorAttr(a) == <<EditorAttrs[a], DocColor(1 + (a % 5))>>
DefaultsRecords ==
    { ThemeSetting(NoScope,
                   Settings(SelectSeq([a \in 1..6 |-> EditorAttr(a)],
                                      LAMBDA attr : \E a \in present : attr = EditorAttr(a))))
      : present \in SUBSET (1..6) }
    \cup { ThemeSetting(NoScope, Settings([a \in 1..6 |-> EditorAttr(7 - a)])),
           ThemeSetting(NoScope, Settings(<< <<"background", << >> >>, EditorAttr(2) >>)),
           ThemeSetting(NoScope, NoSettings) }
Scopes ==
    { NoScope, ScopeString(<< >>), ScopeString(<<"a">>),
      ScopeString(<<"a", ",", " ", "b", " ", "c">>),
      ScopeArray(<< <<"a">>, <<" ", "b", " ", "c">> >>), ScopeArray(<< >>) }
ScopedRecords ==
    { ThemeSetting(scope, settings)
      : scope \in Scopes, settings \in {NoSettings, Settings(<<EditorAttr(2)>>)} }
ThemeInputs ==
    {<< >>} \cup
    { <<first>> \o rest
      : first \in DefaultsRecords \cup ScopedRecords,
        rest \in UNION {[1..n -> ScopedRecords] : n \in 0..(MaxEntries - 1)} }

\* the setting styles: members in any order; a fontStyle of up to MaxStyle lexemes
MaxStyle == 3
FontStyles ==
    UNION { [1..n -> {"bold", "italic", "underline", "strike", " "}] : n \in 0..MaxStyle }
StyleMembers == {"foreground", "background", "fontStyle", "caret"}
StyleInputs ==
    { Settings([i \in DOMAIN names |->
                   <<names[i], CASE names[i] = "foreground" -> foreground
                                 [] names[i] = "fontStyle" -> fontStyle
                                 [] OTHER -> DocColor(2)>>])
      : names \in { members \in UNION {[1..n -> StyleMembers] : n \in 0..3} :
                       \A i, j \in DOMAIN members : members[i] = members[j] => i = j },
        foreground \in {DocColor(1), << >>},
        fontStyle \in FontStyles }

\* the icon-set documents: definitions '_a' and '_b' with an iconPath, '_n' without,
\* '_m' not defined; each pass absent, or with a folder, a file and up to MaxKeys
\* file extensions
MaxKeys == 1
IconDefinitions ==
    << <<"_a", Path(<<".">>, "a", "svg")>>, <<"_b", Path(<<".">>, "b", "svg")>>,
       <<"_n", EmptyPath>> >>
ExtensionKeys == << <<<<"JS">>, "_a">>, <<<<"README">>, "_b">> >>
IconAssociations ==
    {NoAssociation} \cup
    { Association(folder, "", file, fileExtensions, << >>, << >>)
      : folder \in {"", "_a", "_b"}, file \in {"", "_n", "_m"},
        fileExtensions \in
            { keys \in {<< >>} \cup { SubSeq(ExtensionKeys, from, to)
                                      : from \in DOMAIN ExtensionKeys,
                                        to \in DOMAIN ExtensionKeys }
              : Len(keys) <= MaxKeys } }
IconInputs ==
    { FileIconsDocument(FALSE, hasIconDefinitions, IconDefinitions, base, light, highContrast)
      : hasIconDefinitions \in BOOLEAN,
        base \in IconAssociations, light \in IconAssociations,
        highContrast \in IconAssociations }

InitPure ==
    /\ knownThemes = << >>
    /\ knownFileIconContributions = << >>
    /\ currentTheme = << >>
    /\ currentFileIcons = Null
    /\ container = FALSE
    /\ rootClasses = {}
    /\ themeExtensionsActivated = {}
    /\ ready = FALSE
    /\ handled = {}
    /\ collector = << >>
    /\ storage = << >>
    /\ head = << >>
    /\ telemetry = << >>
    /\ calls = << >>
    /\ nCalls = 0
    /\ out = NoEvents
    /\ themeFiles = ThemeFiles
    /\ \/ probe \in {Probe("Color.parse", color, << >>) : color \in ColorInputs}
       \/ probe \in {Probe("_processThemeObject", settings, << >>)
                      : settings \in ThemeInputs}
       \/ probe \in {Probe("_settingsToStatements", settings, << >>)
                      : settings \in StyleInputs}
       \/ probe \in {Probe("_processFileIconsObject", document, << >>)
                      : document \in IconInputs}

\* new Color(arg) for a string
ParseColor ==
    /\ Pending("Color.parse")
    /\ probe' = [probe EXCEPT !.output = <<Color_parse(probe.input)>>]
    /\ UNCHANGED service

\* _processThemeObject for a theme document with these settings
CompileTheme ==
    /\ Pending("_processThemeObject")
    /\ probe' = [probe EXCEPT !.output =
                     <<_processThemeObject(<<"vs", "x-a-tmTheme">>,
                                           [settings |-> probe.input])>>]
    /\ UNCHANGED service

ToStatements ==
    /\ Pending("_settingsToStatements")
    /\ probe' = [probe EXCEPT !.output = <<_settingsToStatements(probe.input)>>]
    /\ UNCHANGED service

\* _processFileIconsObject for the icon set 'x-icons' with this document
CompileFileIcons ==
    /\ Pending("_processFileIconsObject")
    /\ probe' = [probe EXCEPT !.output =
                     <<_processFileIconsObject("x-icons",
                                               Path(<<"ext", "x", "icons">>, "x", "json"),
                                               probe.input)>>]
    /\ UNCHANGED service

NextPure ==
    \/ ParseColor
    \/ CompileTheme
    \/ ToStatements
    \/ CompileFileIcons

SpecPure == InitPure /\ [][NextPure]_vars

(***************************************************************************)
(* C16: Color.parse answers the sentinel (255, 0, 0, 1) for every string   *)
(* that is not '#' followed by exactly six or exactly eight hexadecimal    *)
(* digits.                                                                 *)
(***************************************************************************)
C16_WellFormed(color) ==
    /\ Len(color) \in {7, 9}
    /\ color[1] = "#"
    /\ \A i \in 2..Len(color) : IsHex(color[i])

C16_SentinelForMalformed ==
    (Returned("Color.parse") /\ ~C16_WellFormed(probe.input))
    => probe.output[1] = RGBA(255, 0, 0, 1, 1)

(***************************************************************************)
(* C17: in the compiled stylesheet, every settings entry other than the    *)
(* editor-defaults record that has both a scope and settings has exactly   *)
(* one rule per scope token, the entries in their order and the tokens of  *)
(* an entry in theirs, and no other scoped rule exists; a token with       *)
(* spaces is one rule whose class has dots for the spaces; and the same    *)
(* tokens given as an array instead of a comma-separated string compile to *)
(* the same rules.                                                         *)
(***************************************************************************)
\* the scope tokens of an entry: the elements of an array, the pieces of a string
\* between its commas
C17_Tokens(scope) ==
    IF scope.type = "array" THEN scope.value
    ELSE LET commas == <<0>> \o SelectSeq([i \in DOMAIN scope.value |->
                                              IF scope.value[i] = "," THEN i ELSE 0],
                                          LAMBDA i : i > 0)
                             \o <<Len(scope.value) + 1>>
         IN [t \in 1..(Len(commas) - 1) |->
                SubSeq(scope.value, commas[t] + 1, commas[t + 1] - 1)]

\* the entries that yield rules: not the editor-defaults record, scope and settings
C17_Yielding(settings, i) ==
    /\ ~(i = 1 /\ settings[1].scope.value = << >> /\ settings[1].scope.type # "array")
    /\ settings[i].scope.type = "array" \/ settings[i].scope.value # << >>
    /\ settings[i].settings.defined

RECURSIVE C17_RulesBefore(_, _)
\* the number of rules of the entries before entry i
C17_RulesBefore(settings, i) ==
    IF i = 1 THEN 0
    ELSE C17_RulesBefore(settings, i - 1)
         + (IF C17_Yielding(settings, i - 1) THEN Len(C17_Tokens(settings[i - 1].scope)) ELSE 0)

\* the settings with every string scope replaced by the array of its tokens
C17_AsArrays(settings) ==
    [i \in DOMAIN settings |->
        IF settings[i].scope.type = "string" /\ settings[i].scope.value # << >>
        THEN [settings[i] EXCEPT !.scope = ScopeArray(C17_Tokens(settings[i].scope))]
        ELSE settings[i]]

C17_OneRulePerToken ==
    (Returned("_processThemeObject") /\ ~probe.output[1].threw)
    => LET settings == probe.input
           scoped == SelectSeq(probe.output[1].rules, LAMBDA r : r.template = "token.rule")
       IN /\ Len(scoped) = C17_RulesBefore(settings, Len(settings) + 1)
          /\ \A i \in DOMAIN settings :
                C17_Yielding(settings, i)
                => \A t \in DOMAIN C17_Tokens(settings[i].scope) :
                      LET rule == scoped[C17_RulesBefore(settings, i) + t]
                          token == Trim(C17_Tokens(settings[i].scope)[t])
                      IN /\ rule.scope = JoinLexemes([k \in DOMAIN token |->
                                             IF token[k] = " " THEN "." ELSE token[k]])
                         /\ rule.body = _settingsToStatements(settings[i].settings)
          /\ probe.output[1].rules
                 = _processThemeObject(<<"vs", "x-a-tmTheme">>,
                                       [settings |-> C17_AsArrays(settings)]).rules

\* a list whose second entry has the scope 'a, b c' has been compiled: two rules for
\* it, the second with the class 'b.c'
C17_Witness ==
    /\ Returned("_processThemeObject")
    /\ Len(probe.input) >= 2
    /\ probe.input[2].scope = ScopeString(<<"a", ",", " ", "b", " ", "c">>)
    /\ probe.input[2].settings.defined
    /\ \E r \in DOMAIN probe.output[1].rules :
          /\ probe.output[1].rules[r].template = "token.rule"
          /\ probe.output[1].rules[r].scope = "b.c"

(***************************************************************************)
(* C18: the compiled stylesheet has its whole-editor rules after all the   *)
(* scoped rules, and they are, in this order, three rules for background,  *)
(* one for foreground, two for selection, one for lineHighlight, one for   *)
(* caret and two for invisibles, each group present exactly when the       *)
(* scope-less first entry has a value for the attribute. A list without a  *)
(* scope-less first entry has no whole-editor rule, and a first entry with *)
(* a scope is compiled as a scoped rule.                                   *)
(***************************************************************************)
\* the rules of each attribute of EditorAttrs, by their selectors
C18_Groups ==
    << <<"monaco-editor-background", "glyph-margin", "workbench monaco-editor-background">>,
       <<"token">>,
       <<"focused selected-text", "selected-text">>,
       <<"current-line">>,
       <<"cursor">>,
       <<"token.whitespace", "lines-content cigr">> >>

\* the attribute has a value in the scope-less first entry of the list
C18_Given(settings, a) ==
    /\ settings # << >>
    /\ settings[1].scope.type # "array" /\ settings[1].scope.value = << >>
    /\ \E i \in DOMAIN settings[1].settings.attrs :
          /\ settings[1].settings.attrs[i][1] = EditorAttrs[a]
          /\ settings[1].settings.attrs[i][2] # << >>

RECURSIVE C18_Expected(_, _)
\* the selectors of the whole-editor rules for the attributes from a on
C18_Expected(settings, a) ==
    IF a > Len(EditorAttrs) THEN << >>
    ELSE (IF C18_Given(settings, a) THEN C18_Groups[a] ELSE << >>)
         \o C18_Expected(settings, a + 1)

C18_EditorRulesLastInFixedOrder ==
    (Returned("_processThemeObject") /\ ~probe.output[1].threw)
    => LET settings == probe.input
           rules == probe.output[1].rules
           nScoped == Len(SelectSeq(rules, LAMBDA r : r.template = "token.rule"))
       IN /\ \A r \in 1..nScoped : rules[r].template = "token.rule"
          /\ [r \in 1..(Len(rules) - nScoped) |-> rules[nScoped + r].template]
                 = C18_Expected(settings, 1)
          /\ \A r \in (nScoped + 1)..Len(rules) :
                \E a \in DOMAIN EditorAttrs :
                    /\ \E g \in DOMAIN C18_Groups[a] : C18_Groups[a][g] = rules[r].template
                    /\ C18_Given(settings, a)
                    /\ rules[r].body[1] = Color_toString(Color_parse(EditorAttr(a)[2]))
                       \/ rules[r].template = "selected-text"
          /\ (settings # << >> /\ settings[1].scope = ScopeString(<<"a">>)
              /\ settings[1].settings.defined)
             => /\ nScoped >= 1
                /\ rules[1].scope = "a"
                /\ Len(rules) = nScoped

\* a list with a scoped entry after an editor-defaults record that has all six
\* attributes has been compiled: the ten whole-editor rules follow the scoped one
C18_Witness ==
    /\ Returned("_processThemeObject")
    /\ Len(probe.input) = 2
    /\ \A a \in DOMAIN EditorAttrs : C18_Given(probe.input, a)
    /\ Len(probe.output[1].rules) = 11
    /\ probe.output[1].rules[1].template = "token.rule"
    /\ probe.output[1].rules[11].template = "lines-content cigr"

(***************************************************************************)
(* C19: the declarations of a setting style have a color declaration       *)
(* exactly when the style has a foreground; their font declarations are    *)
(* one per italic, bold or underline token of the fontStyle string, in the *)
(* order of the tokens, with nothing for any other token; and there is     *)
(* never a background declaration.                                         *)
(***************************************************************************)
C19_Member(settings, name) ==
    \E i \in DOMAIN settings.attrs : settings.attrs[i][1] = name

\* the lexemes of a fontStyle that stand alone between spaces and are recognised
C19_Recognised(fontStyle) ==
    SelectSeq([i \in DOMAIN fontStyle |->
                  IF /\ fontStyle[i] \in {"italic", "bold", "underline"}
                     /\ i = 1 \/ fontStyle[i - 1] = " "
                     /\ i = Len(fontStyle) \/ fontStyle[i + 1] = " "
                  THEN fontStyle[i] ELSE ""],
              LAMBDA word : word # "")

C19_Declaration(word) ==
    CASE word = "italic" -> [property |-> "font-style", value |-> "italic"]
      [] word = "bold" -> [property |-> "font-weight", value |-> "bold"]
      [] word = "underline" -> [property |-> "text-decoration", value |-> "underline"]

C19_DeclarationsOfStyle ==
    Returned("_settingsToStatements")
    => LET settings == probe.input
           statements == probe.output[1]
           colors == SelectSeq(statements, LAMBDA d : d.property = "color")
           fonts == SelectSeq(statements, LAMBDA d : d.property # "color")
           words == IF C19_Member(settings, "fontStyle")
                    THEN C19_Recognised(Attr(settings, "fontStyle"))
                    ELSE << >>
       IN /\ Len(colors) = IF C19_Member(settings, "foreground") THEN 1 ELSE 0
          /\ fonts = [w \in DOMAIN words |-> C19_Declaration(words[w])]
          /\ \A d \in DOMAIN statements :
                statements[d].property
                    \in {"color", "font-style", "font-weight", "text-decoration"}

\* a style with a background, a foreground and the fontStyle 'bold italic' has been
\* translated: font-weight, then font-style, and a color
C19_Witness ==
    /\ Returned("_settingsToStatements")
    /\ C19_Member(probe.input, "background")
    /\ C19_Member(probe.input, "foreground")
    /\ C19_Member(probe.input, "fontStyle")
    /\ Attr(probe.input, "fontStyle") = <<"bold", " ", "italic">>
    /\ Len(probe.output[1]) = 3
    /\ \E d \in 1..2 : /\ probe.output[1][d].property = "font-weight"
                       /\ probe.output[1][d + 1].property = "font-style"

(***************************************************************************)
(* C20: the compiled icon stylesheet has exactly one rule for every        *)
(* definition id that is referred to in at least one of the three passes   *)
(* and has an iconDefinitions entry with an iconPath, and no other rule;   *)
(* the rule lists one selector for every reference to the id, those of the *)
(* base pass first and without a variant prefix, then those of the light   *)
(* pass with the prefix '.vs', then those of the highContrast pass with    *)
(* the prefix '.hc_black'.                                                 *)
(***************************************************************************)
\* the number of references to definition id d in one pass
C20_References(associations, d) ==
    IF ~associations.defined THEN 0
    ELSE (IF associations.folder = d THEN 1 ELSE 0)
         + (IF associations.folderExpanded = d THEN 1 ELSE 0)
         + (IF associations.file = d THEN 1 ELSE 0)
         + Cardinality({i \in DOMAIN associations.fileExtensions :
                           associations.fileExtensions[i][2] = d})
         + Cardinality({i \in DOMAIN associations.fileNames :
                           associations.fileNames[i][2] = d})
         + Cardinality({i \in DOMAIN associations.languageIds :
                           associations.languageIds[i][2] = d})

C20_Prefixes == << <<".show-file-icons">>, <<".vs", ".show-file-icons">>,
                   <<".hc_black", ".show-file-icons">> >>

C20_OneRulePerDefinition ==
    Returned("_processFileIconsObject")
    => LET document == probe.input
           rules == probe.output[1]
           passes == <<document.base, document.light, document.highContrast>>
           refs(d, p) == C20_References(passes[p], d)
           image(d) == Path(<<"ext", "x", "icons">>, d[2].stem, d[2].ext)
           ruled == {i \in DOMAIN IconDefinitions :
                        /\ document.hasIconDefinitions
                        /\ IconDefinitions[i][2] # EmptyPath
                        /\ \E p \in 1..3 : refs(IconDefinitions[i][1], p) > 0}
       IN /\ Len(rules) = Cardinality(ruled)
          /\ \A i \in ruled :
                \E r \in DOMAIN rules :
                    /\ rules[r].image = image(IconDefinitions[i])
                    /\ \A p \in 1..3 :
                          \A s \in DOMAIN rules[r].selectors :
                              (rules[r].selectors[s].qualifier = C20_Prefixes[p])
                              <=> /\ s > (IF p > 1 THEN refs(IconDefinitions[i][1], 1) ELSE 0)
                                         + (IF p > 2 THEN refs(IconDefinitions[i][1], 2) ELSE 0)
                                  /\ s <= refs(IconDefinitions[i][1], 1)
                                          + (IF p > 1 THEN refs(IconDefinitions[i][1], 2)
                                             ELSE 0)
                                          + (IF p > 2 THEN refs(IconDefinitions[i][1], 3)
                                             ELSE 0)
                    /\ Len(rules[r].selectors) = refs(IconDefinitions[i][1], 1)
                                                 + refs(IconDefinitions[i][1], 2)
                                                 + refs(IconDefinitions[i][1], 3)

\* a document that refers to '_a' in all three passes, and to '_b', '_n' and '_m', has
\* been compiled: two rules, and in the rule of '_a' the selectors of the three passes
C20_Witness ==
    /\ Returned("_processFileIconsObject")
    /\ probe.input.hasIconDefinitions
    /\ \A d \in {"_b", "_n", "_m"} :
          \E p \in {"base", "light", "highContrast"} :
              C20_References(probe.input[p], d) > 0
    /\ Len(probe.output[1]) = 2
    /\ \E r \in DOMAIN probe.output[1] :
          /\ Len(probe.output[1][r].selectors) >= 3
          /\ \A p \in 1..3 :
                \E s \in DOMAIN probe.output[1][r].selectors :
                    probe.output[1][r].selectors[s].qualifier = C20_Prefixes[p]

(***************************************************************************)
(* C21, as stated: whenever a UI root is registered, the active id, the    *)
(* persisted id and the root's variant class are one id, the root has no   *)
(* other theme's class, and the installed color stylesheet is the cached   *)
(* stylesheet of the contribution applied under that id.                   *)
(***************************************************************************)
\* the active id, the persisted id, the root's classes and the installed color
\* stylesheet all belong to one applied contribution
C21_Consistent ==
    /\ storage = currentTheme
    /\ rootClasses = Tokens(currentTheme)
    /\ \E i \in DOMAIN knownThemes :
          /\ knownThemes[i].id = currentTheme
          /\ \A j \in 1..(i - 1) : knownThemes[j].id # currentTheme
          /\ ThemeCache[i].defined
          /\ ColorStyle = StyleBlock(colorThemeRulesClassName, ThemeCache[i].text)

C21_ConsistentWithRoot == container => C21_Consistent

(***************************************************************************)
(* C21, amended: the same holds from the first apply step that follows the *)
(* registration of the UI root, that is whenever the active id is defined; *)
(* until then (initialize has stored the id and its load is in flight, or  *)
(* has failed) there is no active id and no class on the root.             *)
(***************************************************************************)
C21_ConsistentOnceApplied ==
    /\ currentTheme # << >> => container /\ C21_Consistent
    /\ currentTheme = << >> => rootClasses = {}

\* with a root registered a theme is active, and a later request has failed to load
C21_Witness ==
    /\ container
    /\ currentTheme # << >>
    /\ calls = << >>
    /\ \E k \in DOMAIN out.settled :
          /\ out.settled[k].call.kind = "color"
          /\ out.settled[k].result = "rejected"
          /\ out.settled[k].call.before = currentTheme

(***************************************************************************)
(* C22, as stated: a theme change received from another window is never    *)
(* broadcast again, and every local call with the broadcast flag set       *)
(* broadcasts exactly once.                                                *)
(***************************************************************************)
\* the handler of a received change makes a request without the broadcast flag, and
\* its step broadcasts nothing
C22_ReceivedNotPassedOn ==
    out'.received # << >>
    => /\ out'.broadcast = << >>
       /\ nCalls' = nCalls + 1
       /\ Len(calls') = Len(calls) + 1 => ~calls'[Len(calls')].broadcast
       /\ \A k \in DOMAIN out'.settled : ~out'.settled[k].call.broadcast

C22_EveryFlaggedCallStep ==
    /\ C22_ReceivedNotPassedOn
    /\ \A k \in DOMAIN out'.settled :
          (/\ out'.settled[k].call.kind = "color"
           /\ out'.settled[k].call.broadcast
           /\ out'.settled[k].call.requested # << >>)
          => Len(out'.broadcast) = 1
C22_EveryFlaggedCallBroadcastsOnce == [][C22_EveryFlaggedCallStep]_vars

(***************************************************************************)
(* C22, amended: a theme change received from another window is never      *)
(* broadcast again; the messages a step broadcasts are exactly one for     *)
(* each request with the broadcast flag that succeeds in that step, with   *)
(* the id applied (or, for the same-id shortcut, the id asked for) as the  *)
(* payload; a flagged request that resolves false or is rejected           *)
(* broadcasts nothing, and a request keeps its flag while it is in flight. *)
(***************************************************************************)
C22_BroadcastStep ==
    /\ C22_ReceivedNotPassedOn
    /\ out'.broadcast =
           [k \in 1..Len(SelectSeq(out'.settled,
                                   LAMBDA r : r.call.broadcast /\ r.result = "true")) |->
               LET r == SelectSeq(out'.settled,
                                  LAMBDA q : q.call.broadcast /\ q.result = "true")[k]
               IN IF r.call.data # 0 THEN knownThemes[r.call.data].id ELSE r.call.requested]
    /\ \A k \in DOMAIN out'.settled :
          out'.settled[k].call.broadcast => out'.settled[k].call.kind = "color"
    /\ Len(calls') = Len(calls)
       => \A c \in DOMAIN calls : calls'[c].broadcast = calls[c].broadcast
C22_OneBroadcastPerSuccess == [][C22_BroadcastStep]_vars

\* a change received from another window has just been applied, and nothing broadcast
C22_Witness ==
    /\ out.received # << >>
    /\ out.broadcast = << >>
    /\ \E k \in DOMAIN out.settled :
          /\ Applied(out.settled[k])
          /\ storage = knownThemes[out.settled[k].call.data].id

(***************************************************************************)
(* C23: whenever no file-icon activation is in flight and a file-icon      *)
(* stylesheet is installed, it is the compiled stylesheet of a             *)
(* contribution whose id is currentFileIcons, or of a default icon set     *)
(* when no contribution has that id.                                       *)
(***************************************************************************)
C23_InstalledIsCurrentIconSet ==
    (IconStyle # << >> /\ \A c \in DOMAIN calls : calls[c].kind # "icons")
    => \E i \in DOMAIN knownFileIconContributions :
          /\ \/ knownFileIconContributions[i].id = currentFileIcons
             \/ /\ \A j \in DOMAIN knownFileIconContributions :
                       knownFileIconContributions[j].id # currentFileIcons
                /\ knownFileIconContributions[i].id = DEFAULT_FILE_ICONS
          /\ IconCache[i].defined
          /\ IconStyle = StyleBlock(fileIconRulesClassName, IconCache[i].text)

(***************************************************************************)
(* The loader over arbitrary include references: each of the MaxDepth      *)
(* documents includes none or any one of them, itself included. Every      *)
(* pfs.readFile completes (weak fairness). A request is followed for as    *)
(* long as it has not read more documents than there are on disk.          *)
(***************************************************************************)
CycleFileSystems ==
    { [p \in {DocPath(k) : k \in 1..MaxDepth} |->
          LET k == CHOOSE d \in 1..MaxDepth : DocPath(d) = p
          IN ThemeDocument(FALSE,
                           IF target[k] = 0 THEN EmptyPath
                           ELSE Path(<<".">>, DocStems[target[k]], "json"),
                           <<DocScoped(k)>>)]
      : target \in [1..MaxDepth -> 0..MaxDepth] }

InitCycle ==
    /\ knownThemes = LoadRegistered.knownThemes
    /\ knownFileIconContributions = << >>
    /\ currentTheme = << >>
    /\ currentFileIcons = Null
    /\ container = FALSE
    /\ rootClasses = {}
    /\ themeExtensionsActivated = {}
    /\ ready = TRUE
    /\ handled = {<<"themes", 1>>}
    /\ collector = LoadRegistered.collector
    /\ storage = << >>
    /\ head = << >>
    /\ telemetry = << >>
    /\ calls = << >>
    /\ nCalls = 0
    /\ out = NoEvents
    /\ themeFiles \in CycleFileSystems
    /\ probe = NoProbe

\* a pfs.readFile of _loadThemeDocument completes
ThemeDocumentReadFollowed(c, readOk) ==
    /\ calls[c].nReads <= MaxDepth
    /\ ThemeDocumentRead(c, readOk)

NextCycle ==
    \/ \E b \in BOOLEAN : SetColorTheme(LoadRegistered.knownThemes[1].id, b)
    \/ \E c \in DOMAIN calls, readOk \in BOOLEAN : ThemeDocumentReadFollowed(c, readOk)

SpecCycle ==
    /\ InitCycle
    /\ [][NextCycle]_vars
    /\ WF_vars(\E c \in DOMAIN calls, readOk \in BOOLEAN : ThemeDocumentReadFollowed(c, readOk))

(***************************************************************************)
(* C24: every load of a color theme terminates, whatever the include       *)
(* references of the documents on disk. The documents are fixed and the    *)
(* loader is deterministic, so a load terminates exactly when it reads no  *)
(* document twice: no request in flight has completed more reads than      *)
(* there are documents.                                                    *)
(***************************************************************************)
C24_LoadTerminates ==
    \A c \in DOMAIN calls : calls[c].nReads <= Cardinality(DOMAIN themeFiles)
====
